---- MODULE Spec2Model ----
(***************************************************************************)
(* A model of the per-frame particle pipeline of sploosh: the radix sort   *)
(* (radix_sort.rs), the spatial lookup (spatial_lookup.rs) and the SPH     *)
(* solver's frame update (fluid_simulation.rs).                            *)
(*                                                                         *)
(* GPU buffers are functions from 0-based element indices to integers.     *)
(* Keys are drawn below 2^31 and counters stay far below 2^32, so no u32   *)
(* operation of the model wraps.                                           *)
(* The host side (buffer creation, command encoding, dispatch extents,     *)
(* submission order) is translated from the Rust sources.  The WGSL        *)
(* kernels (src/shaders/*.wgsl) are not part of the sources at hand; the   *)
(* kernel bodies below follow the design document and the Rust tests that  *)
(* pin their results down.                                                 *)
(***************************************************************************)
EXTENDS Integers, Sequences, FiniteSets, Bags, TLC

VARIABLES
    \* ---- radix_sort.rs
    keys_buffer,         \* RadixSort.keys_buffer: [0..n-1 -> u32]
    vals_buffer,         \* the caller's paired values (RadixSort binds none)
    counter_buffer,      \* RadixSort.counter_buffer: [0..bin_cnt-1 -> u32]
    keys_output_buffer,  \* RadixSort.keys_output_buffer
    queue,               \* commands submitted to the GPU queue, not yet run
    running,             \* the compute pass being executed, or NoPass
    pending,             \* threads of the running pass that have not run
    host_keys,           \* the tests' host vector `keys`
    host_vals,           \* the host's copy of the paired values
    host_data,           \* tests::prescan's host vector `data`
    host_op,             \* the commands submitted last: sort, fill_counters, prescan
    test,                \* the test that owns the buffers
    \* ---- spatial_lookup.rs
    config,              \* particle_cnt, smoothing_radius, bbox_dimensions, cell_cnt
    position_buffer,     \* [0..particle_cnt-1 -> <<x, y, z>>]
    sort_keys,           \* sort_buffers.keys(): the cell id of each pair
    sort_values,         \* sort_buffers.values(): the particle index of each pair
    spatial_lookup_index,\* [0..cells-1 -> offset into the sorted table]
    last_pass,           \* the command the GPU completed last
    \* ---- fluid_simulation.rs, graphics/render_engine.rs
    velocity_buffer,     \* [0..particle_cnt-1 -> <<vx, vy, vz>>]
    density_buffer,      \* [0..particle_cnt-1 -> density]
    force_buffer,        \* [0..particle_cnt-1 -> <<fx, fy, fz>>]
    particle_display_buffer, \* [0..particle_cnt-1 -> (position, color)]
    render_queue,        \* the render requests of the frame
    drawn,               \* the draw calls of the last call of render
    \* ---- construction: particle_start_positions, ComputeTask::new
    start_positions,     \* what particle_start_positions returned, or "none"
    tasks,               \* the workgroup count of every task constructed
    \* ---- application.rs
    application          \* Application: window, render_engine, input_helper

radixBufs == <<keys_buffer, vals_buffer, counter_buffer, keys_output_buffer,
               host_keys, host_vals, host_data>>

radixVars == <<keys_buffer, vals_buffer, counter_buffer, keys_output_buffer,
               queue, running, pending, host_keys, host_vals, host_data,
               host_op, test>>

lookupData == <<config, position_buffer, sort_keys, sort_values,
                spatial_lookup_index>>

lookupBufs == <<lookupData, last_pass>>

simData == <<velocity_buffer, density_buffer, force_buffer,
             particle_display_buffer>>

simBufs == <<simData, render_queue, drawn>>

hostVars == <<start_positions, tasks, application>>

vars == <<radixVars, lookupBufs, simBufs, hostVars>>

----------------------------------------------------------------------------
(* Bounds of the model *)

\* the render requests the queue of the render engine is let grow to
MaxRenderQueue == 3

\* the key buffers hold 1..MaxKeys keys
MaxKeys == 3

\* keys the tests draw from; the last one has a non-zero digit in every pass
KeySet == {0, 1, 256, 16909057}

\* multipliers and offsets of the inputs tests::prescan writes
ScanMul == {0, 1, 7}
ScanAdd == {0, 3, 999}

\* the spatial-lookup tests hold 1..MaxParticles particles
MaxParticles == 2

\* lengths are counted in model units: the smoothing radius is two units
ModelRadius == 2

\* the box of tests::spatial_lookup, two and a half cells per axis
LookupBox == <<5, 5, 5>>

\* the positions particles are placed at: a corner cell, the inner cell, the
\* far corner cell; pairs in one cell, in adjacent cells within and beyond the
\* radius, at a distance of exactly the radius, and two cells apart
Placements ==
    { <<0, 0, 0>>, <<1, 1, 1>>, <<2, 0, 0>>, <<2, 2, 2>>, <<3, 3, 3>>,
      <<4, 4, 4>>, <<4, 3, 4>> }

\* the box of the simulation: not a cube; at a radius of two units its x side
\* is a whole number of cells, its y and z sides are not
SimBox == <<2, 3, 3>>

\* where the fluid particle starts: inside the box, on its upper faces, at a
\* lower corner next to the ghost particle
SimStarts == { <<1, 1, 1>>, <<2, 3, 1>>, <<0, 0, 1>> }

\* the time steps of a frame
DtSet == {0, 1, 2}

\* particle_start_positions is tried for 1..MaxStartCnt particles
MaxStartCnt == 9

\* the sides of the boxes particle_start_positions is tried on, the smoothing
\* radius being StartRadius units: half a radius, one, one and a half, and
\* two and a quarter radii
StartSides == {20, 40, 60, 90}

\* the jitter vectors of a fluid particle, each component within a twelfth
\* of the radius; one call jitters its even and its odd fluid particles by
\* one vector each
JitterSet == { <<0, 0, 0>>, <<-3, 3, 1>> }

\* the particle counts (and key counts) tasks are constructed for: none, a
\* few, and counts around one and two workgroups
NewCounts == {0, 1, 2, 3, 4, 255, 256, 257, 258, 259, 260, 512, 513, 514}

\* the sides of the boxes tasks are constructed for, in StartRadius units
NewSides == {20, 40}

\* the dispatches encoded at most before a submission
MaxDispatch == 1

----------------------------------------------------------------------------
(* Program constants *)

WORKGROUP_SIZE == 256
block_size == 8
key_bits == 32
sort_pass_end == 1
prescan_workgroups == 1
prescan_range == 1000
LatticeSide == 3
num_ghost_layers == 2
StartRadius == 40

bin_cnt == 2 ^ block_size
pass_cnt == key_bits \div block_size

NoPass == [op |-> "none", pass_ind |-> 0]
Cmd(op, p) == [op |-> op, pass_ind |-> p]

Zeros(n) == [i \in 0 .. n - 1 |-> 0]
BufLen(buf) == Cardinality(DOMAIN buf)

----------------------------------------------------------------------------
(* Dispatch extents *)

FillCountersWorkgroupCntFloor(key_cnt) == key_cnt \div WORKGROUP_SIZE

\* create_fill_counters_task: workgroup_cnt = ceil(key_cnt / 256)
FillCountersWorkgroupCnt(key_cnt) ==
    LET workgroup_cnt == key_cnt \div WORKGROUP_SIZE
    IN  IF key_cnt % WORKGROUP_SIZE # 0 THEN workgroup_cnt + 1 ELSE workgroup_cnt

\* create_reorder_task: workgroup_cnt = ceil(key_cnt / 256)
ReorderWorkgroupCnt(key_cnt) ==
    LET workgroup_cnt == key_cnt \div WORKGROUP_SIZE
    IN  IF key_cnt % WORKGROUP_SIZE # 0 THEN workgroup_cnt + 1 ELSE workgroup_cnt

PrescanWorkgroupCntNone == prescan_workgroups - 1

\* create_prescan_task: workgroups (1, 1, 1)
PrescanWorkgroupCnt == prescan_workgroups

\* create_spatial_lookup_fill_task: workgroup_cnt = ceil(particle_cnt / 256)
FillWorkgroupCnt(particle_cnt) ==
    LET workgroup_cnt == particle_cnt \div WORKGROUP_SIZE
    IN  IF particle_cnt % WORKGROUP_SIZE # 0 THEN workgroup_cnt + 1 ELSE workgroup_cnt

\* create_spatial_lookup_index_task: workgroup_cnt = ceil(particle_cnt / 256)
IndexWorkgroupCnt(particle_cnt) ==
    LET workgroup_cnt == particle_cnt \div WORKGROUP_SIZE
    IN  IF particle_cnt % WORKGROUP_SIZE # 0 THEN workgroup_cnt + 1 ELSE workgroup_cnt

\* The threads of a dispatch of `workgroup_cnt` workgroups that pass the
\* kernel's bounds check `id < cnt`; the others return at once.
ActiveThreads(workgroup_cnt, cnt) ==
    {i \in 0 .. cnt - 1 : i < workgroup_cnt * WORKGROUP_SIZE}

----------------------------------------------------------------------------
(* Digits *)

\* rs_fill_counters.wgsl / rs_reorder.wgsl: d = (key >> (pass * B)) & (2^B - 1)
KernelDigit(key, pass_ind) ==
    (key \div (2 ^ (pass_ind * block_size))) % bin_cnt

\* tests::fill_counters, the host reference:
\*   tmp = key & (mask << (pass_ind * block_size)); bin = tmp >> (pass_ind * block_size)
HostBin(key, pass_ind) ==
    LET sh  == pass_ind * block_size
        tmp == ((key \div (2 ^ sh)) % (2 ^ block_size)) * (2 ^ sh)
    IN  tmp \div (2 ^ sh)

----------------------------------------------------------------------------
(* Host references *)

RECURSIVE InsertSorted(_, _)
InsertSorted(x, s) ==
    IF s = <<>> THEN <<x>>
    ELSE IF x <= Head(s) THEN <<x>> \o s
    ELSE <<Head(s)>> \o InsertSorted(x, Tail(s))

RECURSIVE InsertionSort(_)
InsertionSort(s) == IF s = <<>> THEN <<>> ELSE InsertSorted(Head(s), InsertionSort(Tail(s)))

BufSeq(buf) == [i \in 1 .. BufLen(buf) |-> buf[i - 1]]
SeqBuf(s) == [i \in 0 .. Len(s) - 1 |-> s[i + 1]]

\* tests::sort: keys.sort()
HostSorted(buf) == SeqBuf(InsertionSort(BufSeq(buf)))

\* the exclusive prefix sums of buf[lo .. hi-1] on top of `acc`, as a sequence;
\* the range is halved so that the evaluation stays shallow
RECURSIVE ScanRange(_, _, _, _)
ScanRange(buf, lo, hi, acc) ==
    IF hi <= lo THEN <<>>
    ELSE IF hi = lo + 1 THEN <<acc>>
    ELSE LET mid  == (lo + hi) \div 2
             left == ScanRange(buf, lo, mid, acc)
         IN  left \o ScanRange(buf, mid, hi, left[mid - lo] + buf[mid - 1])

ExclusiveScan(buf, k) == ScanRange(buf, 0, k, 0)

\* tests::prescan: data[i] = rng.gen_range(0..1000)
PrescanData(a, b) == [i \in 0 .. bin_cnt - 1 |-> (a * i + b) % prescan_range]

----------------------------------------------------------------------------
(* Spatial lookup: grid geometry *)

CeilDiv(a, b) == (a + b - 1) \div b

CellCntFloor(bbox_dimensions, smoothing_radius) ==
    << bbox_dimensions[1] \div smoothing_radius,
       bbox_dimensions[2] \div smoothing_radius,
       bbox_dimensions[3] \div smoothing_radius >>

\* FluidSimulation::new and the tests of spatial_lookup.rs:
\*   cell_cnt = ceil(bbox_dimensions / smoothing_radius) on each axis
CellCnt(bbox_dimensions, smoothing_radius) ==
    << CeilDiv(bbox_dimensions[1], smoothing_radius),
       CeilDiv(bbox_dimensions[2], smoothing_radius),
       CeilDiv(bbox_dimensions[3], smoothing_radius) >>

\* SpatialLookup::new: the index buffer holds cell_cnt.x * cell_cnt.y * cell_cnt.z entries
CellTotal(cell_cnt) == cell_cnt[1] * cell_cnt[2] * cell_cnt[3]

MakeConfig(particle_cnt, smoothing_radius, bbox_dimensions) ==
    [ particle_cnt     |-> particle_cnt,
      smoothing_radius |-> smoothing_radius,
      bbox_dimensions  |-> bbox_dimensions,
      cell_cnt         |-> CellCnt(bbox_dimensions, smoothing_radius) ]

\* fill_spatial_lookup.wgsl: the cell of a position, floor(position / SMOOTHING_RADIUS)
CellCoord(pos, smoothing_radius) ==
    << pos[1] \div smoothing_radius,
       pos[2] \div smoothing_radius,
       pos[3] \div smoothing_radius >>

\* fill_spatial_lookup.wgsl: the flattened index of a cell, z running fastest
FlatCell(cell, cell_cnt) ==
    cell[1] * cell_cnt[2] * cell_cnt[3] + cell[2] * cell_cnt[3] + cell[3]

CellId(pos) == FlatCell(CellCoord(pos, config.smoothing_radius), config.cell_cnt)

Dist2(a, b) ==
    (a[1] - b[1]) * (a[1] - b[1]) + (a[2] - b[2]) * (a[2] - b[2])
       + (a[3] - b[3]) * (a[3] - b[3])

LatticePositionsZOutermost(side, spacing) ==
    [idx \in 0 .. side * side * side - 1 |->
        << spacing * (idx % side),
           spacing * ((idx \div side) % side),
           spacing * (idx \div (side * side)) >>]

\* tests::populating_spatial_lookup: for i, for j, for k: push (i, j, k)
LatticePositions(side, spacing) ==
    [idx \in 0 .. side * side * side - 1 |->
        << spacing * (idx \div (side * side)),
           spacing * ((idx \div side) % side),
           spacing * (idx % side) >>]

----------------------------------------------------------------------------
(* Spatial lookup: the commands of one update *)

UpdateFnIndexBeforeSort ==
    << Cmd("fill_spatial_lookup", 0),
       Cmd("spatial_lookup_index", 0),
       Cmd("gpu_sort", 0) >>

\* SpatialLookup::update_fn: fill, sort, build-index
UpdateFn ==
    << Cmd("fill_spatial_lookup", 0),
       Cmd("gpu_sort", 0),
       Cmd("spatial_lookup_index", 0) >>

----------------------------------------------------------------------------
(* RadixSort: the commands one call of sort() encodes *)

\* the loop body with the counters zeroed after the count instead of before
SortPassCommandsClearLate(pass_ind) ==
    << Cmd("fill_counters", pass_ind),
       Cmd("clear_buffer", 0),
       Cmd("prescan", 0),
       Cmd("reorder", pass_ind),
       Cmd("copy_buffer_to_buffer", 0) >>

\* the body of the loop `for pass_ind in 0..1u32`
SortPassCommands(pass_ind) ==
    << Cmd("clear_buffer", 0),
       Cmd("fill_counters", pass_ind),
       Cmd("prescan", 0),
       Cmd("reorder", pass_ind),
       Cmd("copy_buffer_to_buffer", 0) >>

RECURSIVE SortCommandsFrom(_, _)
SortCommandsFrom(pass_ind, end) ==
    IF pass_ind >= end THEN <<>>
    ELSE SortPassCommands(pass_ind) \o SortCommandsFrom(pass_ind + 1, end)

\* RadixSort::sort
SortCommands == SortCommandsFrom(0, sort_pass_end)

GpuIdle == queue = <<>> /\ running = NoPass

----------------------------------------------------------------------------
(* Host operations of the tests in radix_sort.rs *)

\* tests::sort: sort.sort(&mut encoder); queue.submit(..)
TestSort ==
    /\ test = "sort" /\ GpuIdle
    /\ queue' = SortCommands
    /\ host_op' = "sort"
    /\ UNCHANGED <<keys_buffer, vals_buffer, counter_buffer, keys_output_buffer,
                   running, pending, host_keys, host_vals, host_data, test, lookupBufs>>
    /\ UNCHANGED simBufs
    /\ UNCHANGED hostVars

\* tests::fill_counters: write zeros to the counters, run the count pass
TestFillCounters(pass_ind) ==
    /\ test = "fill_counters" /\ GpuIdle
    /\ counter_buffer' = Zeros(bin_cnt)
    /\ queue' = << Cmd("fill_counters", pass_ind) >>
    /\ host_op' = "fill_counters"
    /\ UNCHANGED <<keys_buffer, vals_buffer, keys_output_buffer,
                   running, pending, host_keys, host_vals, host_data, test, lookupBufs>>
    /\ UNCHANGED simBufs
    /\ UNCHANGED hostVars

\* tests::prescan: write `data` to the buffer, run the prescan pass
TestPrescan(data) ==
    /\ test = "prescan" /\ GpuIdle
    /\ host_data' = data
    /\ counter_buffer' = data
    /\ queue' = << Cmd("prescan", 0) >>
    /\ host_op' = "prescan"
    /\ UNCHANGED <<keys_buffer, vals_buffer, keys_output_buffer,
                   running, pending, host_keys, host_vals, test, lookupBufs>>
    /\ UNCHANGED simBufs
    /\ UNCHANGED hostVars

----------------------------------------------------------------------------
(* The GPU runs the submitted commands in order *)

\* encoder.clear_buffer(&self.counter_buffer, 0, Some(size))
ClearBuffer ==
    /\ running = NoPass /\ queue # <<>> /\ Head(queue).op = "clear_buffer"
    /\ counter_buffer' = Zeros(bin_cnt)
    /\ queue' = Tail(queue)
    /\ UNCHANGED <<keys_buffer, vals_buffer, keys_output_buffer, running,
                   pending, host_keys, host_vals, host_data, host_op, test, lookupData>>
    /\ last_pass' = "clear_buffer"
    /\ UNCHANGED simBufs
    /\ UNCHANGED hostVars

\* the threads dispatch_workgroups(workgroup_cnt, 1, 1) starts for a task
DispatchThreads(op) ==
    CASE op = "fill_counters" ->
            ActiveThreads(FillCountersWorkgroupCnt(BufLen(keys_buffer)),
                          BufLen(keys_buffer))
      [] op = "reorder" ->
            ActiveThreads(ReorderWorkgroupCnt(BufLen(keys_buffer)),
                          BufLen(keys_buffer))
      [] op = "spatial_lookup_index" ->
            ActiveThreads(IndexWorkgroupCnt(config.particle_cnt), config.particle_cnt)

\* ComputeTask::execute of a task whose threads may race on a buffer:
\* dispatch_workgroups(workgroup_cnt, 1, 1)
Dispatch ==
    /\ running = NoPass /\ queue # <<>>
    /\ Head(queue).op \in {"fill_counters", "reorder", "spatial_lookup_index"}
    /\ running' = Head(queue)
    /\ pending' = DispatchThreads(Head(queue).op)
    /\ queue' = Tail(queue)
    /\ UNCHANGED <<keys_buffer, vals_buffer, counter_buffer, keys_output_buffer,
                   host_keys, host_vals, host_data, host_op, test, lookupBufs>>
    /\ UNCHANGED simBufs
    /\ UNCHANGED hostVars

\* rs_fill_counters.wgsl, one thread: atomicAdd(&counters[d], 1)
FillCountersThread(i) ==
    /\ running.op = "fill_counters" /\ i \in pending
    /\ LET d == KernelDigit(keys_buffer[i], running.pass_ind)
       IN  counter_buffer' = [counter_buffer EXCEPT ![d] = @ + 1]
    /\ pending' = pending \ {i}
    /\ UNCHANGED <<keys_buffer, vals_buffer, keys_output_buffer, queue, running,
                   host_keys, host_vals, host_data, host_op, test, lookupBufs>>
    /\ UNCHANGED simBufs
    /\ UNCHANGED hostVars

\* rs_reorder.wgsl, one thread: slot = atomicAdd(&counters[d], 1);
\* keys_output[slot] = key.  A slot outside the buffer is not written.
ReorderThread(i) ==
    /\ running.op = "reorder" /\ i \in pending
    /\ LET d    == KernelDigit(keys_buffer[i], running.pass_ind)
           slot == counter_buffer[d]
       IN  /\ counter_buffer' = [counter_buffer EXCEPT ![d] = @ + 1]
           /\ keys_output_buffer' =
                 IF slot \in DOMAIN keys_output_buffer
                 THEN [keys_output_buffer EXCEPT ![slot] = keys_buffer[i]]
                 ELSE keys_output_buffer
    /\ pending' = pending \ {i}
    /\ UNCHANGED <<keys_buffer, vals_buffer, queue, running,
                   host_keys, host_vals, host_data, host_op, test, lookupBufs>>
    /\ UNCHANGED simBufs
    /\ UNCHANGED hostVars

\* the last thread of the running pass has returned
EndPass ==
    /\ running # NoPass /\ pending = {}
    /\ running' = NoPass
    /\ UNCHANGED <<keys_buffer, vals_buffer, counter_buffer, keys_output_buffer,
                   queue, pending, host_keys, host_vals, host_data, host_op, test, lookupData>>
    /\ last_pass' = running.op
    /\ UNCHANGED simBufs
    /\ UNCHANGED hostVars

\* rs_prescan.wgsl: one workgroup scans the counters in place
PrescanKernel(buf, workgroup_cnt) ==
    LET covered == IF workgroup_cnt * WORKGROUP_SIZE < BufLen(buf)
                   THEN workgroup_cnt * WORKGROUP_SIZE ELSE BufLen(buf)
        scan    == ExclusiveScan(buf, covered)
    IN  [i \in DOMAIN buf |-> IF i < covered THEN scan[i + 1] ELSE buf[i]]

\* ComputeTask::execute of prescan_task
Prescan ==
    /\ running = NoPass /\ queue # <<>> /\ Head(queue).op = "prescan"
    /\ counter_buffer' = PrescanKernel(counter_buffer, PrescanWorkgroupCnt)
    /\ queue' = Tail(queue)
    /\ UNCHANGED <<keys_buffer, vals_buffer, keys_output_buffer, running,
                   pending, host_keys, host_vals, host_data, host_op, test, lookupData>>
    /\ last_pass' = "prescan"
    /\ UNCHANGED simBufs
    /\ UNCHANGED hostVars

\* encoder.copy_buffer_to_buffer(&keys_output_buffer, 0, &keys_buffer, 0, size)
CopyBufferToBuffer ==
    /\ running = NoPass /\ queue # <<>>
    /\ Head(queue).op = "copy_buffer_to_buffer"
    /\ keys_buffer' = keys_output_buffer
    /\ queue' = Tail(queue)
    /\ UNCHANGED <<vals_buffer, counter_buffer, keys_output_buffer, running,
                   pending, host_keys, host_vals, host_data, host_op, test, lookupData>>
    /\ last_pass' = "copy_buffer_to_buffer"
    /\ UNCHANGED simBufs
    /\ UNCHANGED hostVars

----------------------------------------------------------------------------
(* The radix sort and its tests *)

\* tests::sort and tests::fill_counters: a keys buffer filled by the test,
\* RadixSort::new (or the test) creates every other buffer zeroed
KeysTestInit ==
    \E n \in 1 .. MaxKeys :
        /\ test \in {"sort", "fill_counters"}
        /\ keys_buffer \in [0 .. n - 1 -> KeySet]
        /\ host_keys = keys_buffer
        /\ vals_buffer = [i \in 0 .. n - 1 |-> i]
        /\ host_vals = vals_buffer
        /\ counter_buffer = Zeros(bin_cnt)
        /\ keys_output_buffer = Zeros(n)
        /\ queue = <<>>
        /\ running = NoPass
        /\ pending = {}
        /\ host_data = Zeros(bin_cnt)
        /\ host_op = "none"

\* tests::prescan: one buffer of n = 256 entries, created zeroed
PrescanTestInit ==
    /\ test = "prescan"
    /\ keys_buffer = Zeros(0)
    /\ host_keys = Zeros(0)
    /\ vals_buffer = Zeros(0)
    /\ host_vals = Zeros(0)
    /\ counter_buffer = Zeros(bin_cnt)
    /\ keys_output_buffer = Zeros(0)
    /\ queue = <<>>
    /\ running = NoPass
    /\ pending = {}
    /\ host_data = Zeros(bin_cnt)
    /\ host_op = "none"

\* no spatial lookup exists in the tests of radix_sort.rs
NoLookup ==
    /\ config = [particle_cnt |-> 0, smoothing_radius |-> 1,
                 bbox_dimensions |-> <<1, 1, 1>>, cell_cnt |-> <<1, 1, 1>>]
    /\ position_buffer = Zeros(0)
    /\ sort_keys = Zeros(0)
    /\ sort_values = Zeros(0)
    /\ spatial_lookup_index = Zeros(0)
    /\ last_pass = "none"

\* nothing is constructed and no application runs in the tests
NoHost ==
    /\ start_positions = "none"
    /\ tasks = <<>>
    /\ application = "none"

\* no simulation exists in the tests of radix_sort.rs and spatial_lookup.rs
NoSim ==
    /\ velocity_buffer = Zeros(0) /\ density_buffer = Zeros(0)
    /\ force_buffer = Zeros(0) /\ particle_display_buffer = Zeros(0)
    /\ render_queue = <<>> /\ drawn = <<>>

RadixInit == (KeysTestInit \/ PrescanTestInit) /\ NoLookup /\ NoSim /\ NoHost

RadixNext ==
    \/ TestSort
    \/ \E p \in 0 .. pass_cnt - 1 : TestFillCounters(p)
    \/ \E a \in ScanMul, b \in ScanAdd : TestPrescan(PrescanData(a, b))
    \/ ClearBuffer
    \/ Dispatch
    \/ \E i \in pending : FillCountersThread(i)
    \/ \E i \in pending : ReorderThread(i)
    \/ EndPass
    \/ Prescan
    \/ CopyBufferToBuffer

SpecRadix == RadixInit /\ [][RadixNext]_vars

----------------------------------------------------------------------------
(* Spatial lookup: kernels and host operations *)

\* fill_spatial_lookup.wgsl, every thread p < PARTICLE_CNT:
\*   keys[p] = cell id of positions[p]; vals[p] = p
FillSpatialLookup ==
    /\ running = NoPass /\ queue # <<>> /\ Head(queue).op = "fill_spatial_lookup"
    /\ LET threads == ActiveThreads(FillWorkgroupCnt(config.particle_cnt),
                                    config.particle_cnt)
       IN  /\ sort_keys' = [p \in DOMAIN sort_keys |->
                              IF p \in threads THEN CellId(position_buffer[p])
                              ELSE sort_keys[p]]
           /\ sort_values' = [p \in DOMAIN sort_values |->
                              IF p \in threads THEN p ELSE sort_values[p]]
    /\ queue' = Tail(queue)
    /\ last_pass' = "fill_spatial_lookup"
    /\ UNCHANGED <<radixBufs, running, pending, host_op, test, config,
                   position_buffer, spatial_lookup_index>>
    /\ UNCHANGED simBufs
    /\ UNCHANGED hostVars

\* the orders in which the (key, value) pairs can end up: ascending by key,
\* any order among equal keys
SortedOrders(keys) ==
    {perm \in Permutations(DOMAIN keys) :
        \A i, j \in DOMAIN keys : i < j => keys[perm[i]] <= keys[perm[j]]}

\* GPUSorter::sort(encoder, queue, &sort_buffers, None): sorts all pairs by key
GpuSort ==
    /\ running = NoPass /\ queue # <<>> /\ Head(queue).op = "gpu_sort"
    /\ \E perm \in SortedOrders(sort_keys) :
          /\ sort_keys' = [i \in DOMAIN sort_keys |-> sort_keys[perm[i]]]
          /\ sort_values' = [i \in DOMAIN sort_values |-> sort_values[perm[i]]]
    /\ queue' = Tail(queue)
    /\ last_pass' = "gpu_sort"
    /\ UNCHANGED <<radixBufs, running, pending, host_op, test, config,
                   position_buffer, spatial_lookup_index>>
    /\ UNCHANGED simBufs
    /\ UNCHANGED hostVars

\* spatial_lookup_index.wgsl, one thread i < PARTICLE_CNT:
\*   if i == 0 || keys[i] != keys[i - 1] { index[keys[i]] = i }
\* A key outside the index buffer is not written.
IndexThread(i) ==
    /\ running.op = "spatial_lookup_index" /\ i \in pending
    /\ spatial_lookup_index' =
          IF /\ (i = 0 \/ sort_keys[i] # sort_keys[i - 1])
             /\ sort_keys[i] \in DOMAIN spatial_lookup_index
          THEN [spatial_lookup_index EXCEPT ![sort_keys[i]] = i]
          ELSE spatial_lookup_index
    /\ pending' = pending \ {i}
    /\ UNCHANGED <<radixBufs, queue, running, host_op, test, config,
                   position_buffer, sort_keys, sort_values, last_pass>>
    /\ UNCHANGED simBufs
    /\ UNCHANGED hostVars

\* tests::populating_spatial_lookup: run the fill task alone
TestPopulate ==
    /\ test = "populating_spatial_lookup" /\ GpuIdle /\ host_op = "none"
    /\ queue' = << Cmd("fill_spatial_lookup", 0) >>
    /\ host_op' = "fill"
    /\ UNCHANGED <<radixBufs, running, pending, test, lookupBufs>>
    /\ UNCHANGED simBufs
    /\ UNCHANGED hostVars

\* tests::spatial_lookup: spatial_lookup.update_fn()(&mut encoder, &queue); submit
TestUpdate ==
    /\ test = "spatial_lookup" /\ GpuIdle
    /\ queue' = UpdateFn
    /\ host_op' = "update"
    /\ UNCHANGED <<radixBufs, running, pending, test, lookupBufs>>
    /\ UNCHANGED simBufs
    /\ UNCHANGED hostVars

\* between two updates the owner of the position buffer (the integration
\* pass, which binds it read-write) moves a particle
MoveParticle(p, pos) ==
    /\ test = "spatial_lookup" /\ GpuIdle /\ host_op = "update"
    /\ position_buffer[p] # pos
    /\ position_buffer' = [position_buffer EXCEPT ![p] = pos]
    /\ host_op' = "move"
    /\ UNCHANGED <<radixBufs, queue, running, pending, test, config, sort_keys,
                   sort_values, spatial_lookup_index, last_pass>>
    /\ UNCHANGED simBufs
    /\ UNCHANGED hostVars

\* no radix sort of radix_sort.rs exists in the tests of spatial_lookup.rs
NoRadix ==
    /\ keys_buffer = Zeros(0) /\ vals_buffer = Zeros(0)
    /\ counter_buffer = Zeros(0) /\ keys_output_buffer = Zeros(0)
    /\ host_keys = Zeros(0) /\ host_vals = Zeros(0) /\ host_data = Zeros(0)

GpuInit == queue = <<>> /\ running = NoPass /\ pending = {} /\ last_pass = "none"

\* tests::populating_spatial_lookup: 27 particles on a 3 x 3 x 3 lattice with
\* spacing = smoothing radius (1.0, two model units), box 3.0
PopulateTestInit ==
    /\ test = "populating_spatial_lookup"
    /\ config = MakeConfig(LatticeSide * LatticeSide * LatticeSide, ModelRadius,
                           << LatticeSide * ModelRadius, LatticeSide * ModelRadius,
                              LatticeSide * ModelRadius >>)
    /\ position_buffer = LatticePositions(LatticeSide, ModelRadius)
    /\ sort_keys = Zeros(config.particle_cnt)
    /\ sort_values = Zeros(config.particle_cnt)
    /\ spatial_lookup_index = Zeros(CellTotal(config.cell_cnt))
    /\ host_op = "none"

\* tests::spatial_lookup: particles placed in the box, SpatialLookup::new, and
\* 0..particle_cnt written to the key and value buffers
LookupTestInit ==
    \E n \in 1 .. MaxParticles :
        /\ test = "spatial_lookup"
        /\ config = MakeConfig(n, ModelRadius, LookupBox)
        /\ position_buffer \in [0 .. n - 1 -> Placements]
        /\ sort_keys = [i \in 0 .. n - 1 |-> i]
        /\ sort_values = [i \in 0 .. n - 1 |-> i]
        /\ spatial_lookup_index = Zeros(CellTotal(config.cell_cnt))
        /\ host_op = "none"

LookupInit ==
    (PopulateTestInit \/ LookupTestInit) /\ NoRadix /\ GpuInit /\ NoSim /\ NoHost

LookupNext ==
    \/ TestPopulate
    \/ TestUpdate
    \/ \E p \in DOMAIN position_buffer, pos \in Placements : MoveParticle(p, pos)
    \/ FillSpatialLookup
    \/ GpuSort
    \/ Dispatch
    \/ \E i \in pending : IndexThread(i)
    \/ EndPass

SpecLookup == LookupInit /\ [][LookupNext]_vars

----------------------------------------------------------------------------
(* Claims about the radix sort *)

SortFinished == host_op = "sort" /\ GpuIdle

\* the bag of (key, value) pairs of two paired buffers
PairBag(k, v) ==
    LET pairs == {<<k[i], v[i]>> : i \in DOMAIN k}
    IN  [p \in pairs |-> Cardinality({i \in DOMAIN k : <<k[i], v[i]>> = p})]

RECURSIVE SumRange(_, _, _)
SumRange(buf, lo, hi) ==
    IF hi <= lo THEN 0
    ELSE IF hi = lo + 1 THEN buf[lo]
    ELSE SumRange(buf, lo, (lo + hi) \div 2) + SumRange(buf, (lo + hi) \div 2, hi)

\* C1: when RadixSort::sort has run to completion, the keys buffer holds the
\* host-sorted input: the same keys in ascending order.
C1_KeysSortedAfterSort ==
    SortFinished => keys_buffer = HostSorted(host_keys)

\* C2: when the sort has run to completion, the (key, value) pairs in the two
\* buffers are the input pairs: every value has moved with its key.
C2_PairsMoveTogether ==
    SortFinished => PairBag(keys_buffer, vals_buffer) = PairBag(host_keys, host_vals)

\* C3: when every thread of a count pass with pass index p in 0..pass_cnt-1,
\* started on zeroed counters, has returned, counter[d] is the number of keys
\* whose digit p is d, for every bucket d, whatever the order of the atomic
\* increments; the counters sum to the number of keys.
C3_CountersAreHistogram ==
    (running.op = "fill_counters" /\ pending = {}) =>
        /\ \A d \in 0 .. bin_cnt - 1 :
              counter_buffer[d] =
                 Cardinality({i \in DOMAIN keys_buffer :
                                 HostBin(keys_buffer[i], running.pass_ind) = d})
        /\ SumRange(counter_buffer, 0, bin_cnt) = BufLen(keys_buffer)

\* a count pass of the last digit has finished over keys with two different
\* last digits
C3_Witness ==
    /\ running.op = "fill_counters" /\ pending = {}
    /\ running.pass_ind = pass_cnt - 1
    /\ counter_buffer[0] >= 1 /\ counter_buffer[1] >= 1

\* C4: the prescan pass replaces a 256-element buffer by its exclusive prefix
\* sum: out[0] = 0 and out[i] = out[i-1] + in[i-1] for i in 1..255.
C4_PrescanIsExclusiveScan ==
    (host_op = "prescan" /\ GpuIdle) =>
        /\ BufLen(counter_buffer) = bin_cnt
        /\ counter_buffer[0] = 0
        /\ \A i \in 1 .. bin_cnt - 1 :
              counter_buffer[i] = counter_buffer[i - 1] + host_data[i - 1]

\* the prescan pass has run over an input that is not constant
C4_Witness ==
    /\ host_op = "prescan" /\ GpuIdle
    /\ host_data[0] # host_data[1]
    /\ counter_buffer[bin_cnt - 1] > 0

\* the commands of the submitted sort that have not completed
SortStream == (IF running = NoPass THEN <<>> ELSE <<running>>) \o queue

\* C19: one call of RadixSort::sort encodes pass_cnt = ceil(32 / 8) = 4 digit
\* passes, p = 0, 1, 2, 3 in this order, and pass p hands p to both the
\* count and the scatter kernel.
C19_FourPassesInOrder ==
    [][(test = "sort" /\ queue = <<>> /\ queue' # <<>>) =>
          /\ Len(queue') = pass_cnt * Len(SortPassCommands(0))
          /\ \A p \in 0 .. pass_cnt - 1 :
                LET first == p * Len(SortPassCommands(0))
                IN  /\ queue'[first + 2] = Cmd("fill_counters", p)
                    /\ queue'[first + 4] = Cmd("reorder", p)]_vars

\* the order of the five commands of one pass, as the claim states it
PassOrder ==
    <<"clear_buffer", "fill_counters", "prescan", "reorder", "copy_buffer_to_buffer">>

\* C20: in every pass of RadixSort::sort the commands are, in this order:
\* zero the counters, count, prefix-scan, scatter, copy the output over the
\* keys; so a count pass starts from all-zero counters, and when the copy
\* has run the keys buffer holds the output of the pass, which is what a
\* following pass reads.
C20_PassCommandOrder ==
    (test = "sort" /\ host_op = "sort") =>
        /\ \A j \in DOMAIN SortStream :
              SortStream[j].op =
                 PassOrder[Len(PassOrder) - ((Len(SortStream) - j) % Len(PassOrder))]
        /\ (running.op = "fill_counters"
               /\ pending = DispatchThreads("fill_counters")) =>
              counter_buffer = Zeros(bin_cnt)
        /\ (running = NoPass /\ last_pass = "copy_buffer_to_buffer") =>
              keys_buffer = keys_output_buffer

\* a sort has run to its copy on counters that the scan and the scatter of
\* the pass left non-zero, and the scatter has changed the order of the keys
C20_Witness ==
    /\ test = "sort" /\ host_op = "sort" /\ GpuIdle
    /\ last_pass = "copy_buffer_to_buffer"
    /\ keys_buffer # host_keys
    /\ \E d \in DOMAIN counter_buffer : counter_buffer[d] > 0

\* the elements the scatter thread of element i leaves behind in this step
ScatteredNow == pending \ pending'

\* C21: the scatter is stable under every interleaving of its threads: an
\* element takes its slot only when no element that precedes it in the input
\* of the pass and has the same full key is still waiting for one (a waiting
\* element gets a later slot of the same bucket, the offsets only grow).
C21_ScatterIsStable ==
    [][(running.op = "reorder" /\ running' = running) =>
          \A i \in ScatteredNow : \A j \in pending' :
             (keys_buffer[j] = keys_buffer[i]) => i < j]_vars

----------------------------------------------------------------------------
(* Claims about the spatial lookup *)

UpdateFinished == host_op = "update" /\ GpuIdle

Cells == DOMAIN spatial_lookup_index

ParticlesIn(c) == {p \in DOMAIN position_buffer : CellId(position_buffer[p]) = c}

OccupiedCells == {c \in Cells : ParticlesIn(c) # {}}

\* the offsets of the table whose key is c
PairsOf(c) == {j \in DOMAIN sort_keys : sort_keys[j] = c}

\* the start of the next non-empty cell after c, the pair count if there is none
NextStart(c) ==
    LET later == {d \in OccupiedCells : d > c}
    IN  IF later = {} THEN BufLen(sort_keys)
        ELSE spatial_lookup_index[CHOOSE d \in later : \A e \in later : d <= e]

\* the entry after cell c: the pair count stands in after the last cell
IndexAfter(c) ==
    IF c + 1 \in Cells THEN spatial_lookup_index[c + 1] ELSE BufLen(sort_keys)

\* C5: after the fill pass, value[p] = p and key[p] is the flattened cell
\* index of floor(position[p] / smoothing_radius) for every particle p; on the
\* 3 x 3 x 3 lattice with spacing = smoothing radius the particle at (i, j, k)
\* has key i*9 + j*3 + k, which is its particle index.
C5_FillWritesCellKeys ==
    (last_pass = "fill_spatial_lookup") =>
        /\ \A p \in DOMAIN position_buffer :
              LET r   == config.smoothing_radius
                  cnt == config.cell_cnt
                  pos == position_buffer[p]
              IN  /\ sort_values[p] = p
                  /\ sort_keys[p] = (pos[1] \div r) * cnt[2] * cnt[3]
                                       + (pos[2] \div r) * cnt[3] + (pos[3] \div r)
        /\ (test = "populating_spatial_lookup") =>
              \A i, j, k \in 0 .. LatticeSide - 1 :
                 \E p \in DOMAIN position_buffer :
                    /\ position_buffer[p] = << i * config.smoothing_radius,
                                               j * config.smoothing_radius,
                                               k * config.smoothing_radius >>
                    /\ sort_keys[p] = i * 9 + j * 3 + k
                    /\ p = i * 9 + j * 3 + k

\* the fill pass has run over the whole lattice
C5_Witness ==
    /\ last_pass = "fill_spatial_lookup"
    /\ test = "populating_spatial_lookup"
    /\ sort_keys[26] = 26 /\ sort_keys[5] = 5 /\ sort_values[26] = 26

\* C6: after an update, for every cell c holding a particle, the pairs with
\* key c are the particles in c and occupy exactly the offsets from
\* cell_start_index[c] up to the start of the next non-empty cell (the pair
\* count for the last non-empty cell).
C6_OccupiedCellRange ==
    UpdateFinished =>
        \A c \in OccupiedCells :
           /\ PairsOf(c) = {j \in DOMAIN sort_keys :
                               spatial_lookup_index[c] <= j /\ j < NextStart(c)}
           /\ {sort_values[j] : j \in PairsOf(c)} = ParticlesIn(c)

\* a later update has finished: two cells are occupied and a cell that was
\* left by its particle still holds its old start
C6_Witness ==
    /\ UpdateFinished
    /\ Cardinality(OccupiedCells) = 2
    /\ \E c \in Cells \ OccupiedCells : spatial_lookup_index[c] # 0

\* C7: after an update, the entry of every empty cell is the start of the next
\* non-empty cell, so that index[c+1] - index[c] is the number of particles in
\* c for every cell c.
C7_EmptyCellsCarryNextStart ==
    UpdateFinished =>
        \A c \in Cells :
           /\ (c \notin OccupiedCells => spatial_lookup_index[c] = NextStart(c))
           /\ IndexAfter(c) - spatial_lookup_index[c] = Cardinality(ParticlesIn(c))

\* compute_density.wgsl: the in-range cells of the 3 x 3 x 3 block around a cell
NeighbourCells(cell) ==
    {c \in {<< cell[1] + dx, cell[2] + dy, cell[3] + dz >> :
               dx \in -1 .. 1, dy \in -1 .. 1, dz \in -1 .. 1} :
        \A a \in 1 .. 3 : 0 <= c[a] /\ c[a] < config.cell_cnt[a]}

\* compute_density.wgsl: walk the table from offset j while the key is c
RECURSIVE CellRun(_, _)
CellRun(c, j) ==
    IF j \in DOMAIN sort_keys /\ sort_keys[j] = c
    THEN {j} \cup CellRun(c, j + 1)
    ELSE {}

\* compute_density.wgsl: the particles the scan of particle i accepts
GridNeighbours(i) ==
    LET own  == CellCoord(position_buffer[i], config.smoothing_radius)
        runs == UNION {CellRun(FlatCell(c, config.cell_cnt),
                               spatial_lookup_index[FlatCell(c, config.cell_cnt)]) :
                          c \in NeighbourCells(own)}
    IN  {sort_values[j] : j \in
            {j \in runs :
                Dist2(position_buffer[i], position_buffer[sort_values[j]])
                   <= config.smoothing_radius * config.smoothing_radius}}

\* tests::spatial_lookup: the host's neighbour lists, dist <= smoothing_radius
BruteNeighbours(i) ==
    {j \in DOMAIN position_buffer :
        Dist2(position_buffer[i], position_buffer[j])
           <= config.smoothing_radius * config.smoothing_radius}

UpdateOrder == <<"fill_spatial_lookup", "gpu_sort", "spatial_lookup_index">>

\* C22: an update appends fill, sort, build-index in this order and nothing
\* else; so the sort starts on the keys and values this update's fill wrote
\* (the cell id of every particle's present position, paired with the
\* particle), and build-index runs over keys that are fully sorted and are
\* still the cell ids of the particles they are paired with.
C22_UpdateOrderFillSortIndex ==
    (test = "spatial_lookup" /\ host_op = "update") =>
        /\ \A j \in DOMAIN SortStream :
              /\ Len(SortStream) <= Len(UpdateOrder)
              /\ SortStream[j].op =
                    UpdateOrder[Len(UpdateOrder) - (Len(SortStream) - j)]
        /\ (SortStream # <<>> /\ Head(SortStream).op = "gpu_sort") =>
              \A p \in DOMAIN sort_keys :
                 /\ sort_keys[p] = CellId(position_buffer[p])
                 /\ sort_values[p] = p
        /\ (running.op = "spatial_lookup_index") =>
              /\ \A i, j \in DOMAIN sort_keys :
                    i < j => sort_keys[i] <= sort_keys[j]
              /\ \A i \in DOMAIN sort_keys :
                    sort_keys[i] = CellId(position_buffer[sort_values[i]])

\* build-index runs in an update whose sort has moved a pair: the particle
\* first in the table is not particle 0
C22_Witness ==
    /\ test = "spatial_lookup" /\ host_op = "update"
    /\ running.op = "spatial_lookup_index" /\ pending # {}
    /\ sort_values[0] # 0
    /\ \E i \in DOMAIN sort_keys : sort_keys[i] # sort_keys[0]

----------------------------------------------------------------------------
(* FluidSimulation: the passes of a frame *)

\* the damping a simulation is configured with, as the fraction num / den:
\* one half, and the -0.6 ApplicationState::new passes
DampingSet == { [num |-> 1, den |-> 2], [num |-> -3, den |-> 5] }

\* FluidSimulation::new: the configuration of a simulation of one ghost
\* particle and one fluid particle; damping is the fraction num / den
SimConfig ==
    [ particle_cnt       |-> 2,
      ghost_particle_cnt |-> 1,
      smoothing_radius   |-> ModelRadius,
      bbox_dimensions    |-> SimBox,
      cell_cnt           |-> CellCnt(SimBox, ModelRadius),
      mass               |-> 1,
      rest_density       |-> 200,
      damping            |-> [num |-> 1, den |-> 2] ]

\* create_compute_density_task, create_compute_force_task and
\* create_update_particles_task: one thread per non-ghost particle
\* workgroup_cnt = (particle_cnt - ghost_particle_cnt) as u32 / 256, plus one
\* if (particle_cnt - ghost_particle_cnt) % 256 != 0. A usize difference that
\* has wrapped is 2^64 - d, as u32 2^32 - d, and 2^32 / 256 = 16777216.
FluidWorkgroupCnt(particle_cnt, ghost_particle_cnt) ==
    IF particle_cnt >= ghost_particle_cnt
    THEN ((particle_cnt - ghost_particle_cnt) \div WORKGROUP_SIZE)
            + (IF (particle_cnt - ghost_particle_cnt) % WORKGROUP_SIZE # 0
               THEN 1 ELSE 0)
    ELSE (16777216 - ((ghost_particle_cnt - particle_cnt + WORKGROUP_SIZE - 1)
                         \div WORKGROUP_SIZE))
            + (IF (ghost_particle_cnt - particle_cnt) % WORKGROUP_SIZE # 0
               THEN 1 ELSE 0)

DisplayWorkgroupCntFloor(particle_cnt) == particle_cnt \div WORKGROUP_SIZE

\* create_display_density_task: one thread per particle
DisplayWorkgroupCnt(particle_cnt) ==
    (particle_cnt \div WORKGROUP_SIZE)
       + (IF particle_cnt % WORKGROUP_SIZE # 0 THEN 1 ELSE 0)

ShaderGhostParticleCntLess(ghost_particle_cnt) == ghost_particle_cnt - 1

\* create_compute_density_task, create_compute_force_task and
\* create_update_particles_task: const GHOST_PARTICLE_CNT = {ghost_particle_cnt}
ShaderGhostParticleCnt(ghost_particle_cnt) == ghost_particle_cnt

\* the particles the threads of a pass over the non-ghost particles work on
FluidThreads ==
    {ShaderGhostParticleCnt(config.ghost_particle_cnt) + t :
        t \in ActiveThreads(FluidWorkgroupCnt(config.particle_cnt,
                                              config.ghost_particle_cnt),
                            config.particle_cnt - config.ghost_particle_cnt)}

ShaderBBoxSwapped(bbox_dimensions) ==
    << bbox_dimensions[2], bbox_dimensions[1], bbox_dimensions[3] >>

\* create_update_particles_task: const BBOX = vec3(bbox.x, bbox.y, bbox.z)
ShaderBBox(bbox_dimensions) ==
    << bbox_dimensions[1], bbox_dimensions[2], bbox_dimensions[3] >>

\* the bindings with the density task's binding 4 declared read-only
ReadWriteBindingsDensityReadOnly(op) ==
    CASE op = "fill_spatial_lookup"  -> {"keys", "values"}
      [] op = "gpu_sort"             -> {"keys", "values"}
      [] op = "spatial_lookup_index" -> {"index"}
      [] op = "compute_density"      -> {}
      [] op = "compute_force"        -> {"forces"}
      [] op = "update_particles"     -> {"positions", "velocities"}
      [] op = "fill_display_buffer"  -> {"display"}
      [] OTHER                       -> {}

\* the buffers each task binds as Storage { read_only: false }, and the
\* buffers GPUSorter::sort is handed to sort; anything else binds nothing
ReadWriteBindings(op) ==
    CASE op = "fill_spatial_lookup"  -> {"keys", "values"}
      [] op = "gpu_sort"             -> {"keys", "values"}
      [] op = "spatial_lookup_index" -> {"index"}
      [] op = "compute_density"      -> {"densities"}
      [] op = "compute_force"        -> {"forces"}
      [] op = "update_particles"     -> {"positions", "velocities"}
      [] op = "fill_display_buffer"  -> {"display"}
      [] OTHER                       -> {}

\* the passes of a frame with the force pass ahead of the density pass
FrameCommandsForceFirst(dt) ==
    UpdateFn \o << Cmd("compute_force", 0), Cmd("compute_density", 0),
                   Cmd("update_particles", dt), Cmd("fill_display_buffer", 0) >>

\* FluidSimulation::update, the unpaused branch: lookup update, density,
\* force, integration with the time step, display
FrameCommands(dt) ==
    UpdateFn \o << Cmd("compute_density", 0), Cmd("compute_force", 0),
                   Cmd("update_particles", dt), Cmd("fill_display_buffer", 0) >>

SimulationCommandsAlways(simulation_paused, dt) == FrameCommands(dt)

\* FluidSimulation::update: the generic requests of a frame,
\*   if !simulation_paused { lookup update; density; force; update(dt); display }
SimulationCommands(simulation_paused, dt) ==
    IF ~simulation_paused THEN FrameCommands(dt) ELSE <<>>

\* the draw calls of a loop that walks the queue from its end
DrawnReversed(requests) ==
    [r \in DOMAIN requests |-> requests[Len(requests) + 1 - r]]

\* RenderEngine::render, `for request in &self.render_queue`: one draw call
\* for each queued request, in the order of the queue
Drawn(requests) == [r \in DOMAIN requests |-> requests[r]]

\* RenderEngine::render: `self.surface.get_current_texture()?` returns the
\* error before anything is encoded; otherwise the requests are drawn and
\* the queue is cleared
RenderResult(surface_ok) ==
    /\ drawn' = IF surface_ok THEN Drawn(render_queue) ELSE <<>>
    /\ render_queue' = IF surface_ok THEN <<>> ELSE render_queue

\* FluidSimulation::update: the two render requests of every frame
RenderRequests == << "Line", "Particle" >>

\* ApplicationState::update calls FluidSimulation::update once per frame,
\* after the previous frame has been rendered
FluidSimulationUpdate(simulation_paused, dt) ==
    /\ GpuIdle /\ render_queue = <<>>
    /\ queue' = queue \o SimulationCommands(simulation_paused, dt)
    /\ render_queue' = render_queue \o RenderRequests
    /\ host_op' = IF simulation_paused THEN "update_paused" ELSE "update"
    /\ UNCHANGED <<radixBufs, running, pending, test, lookupBufs, simData, drawn>>

\* a frame of a simulation whose owner chooses the flag and the time step
Update(simulation_paused, dt) ==
    /\ test = "simulation"
    /\ FluidSimulationUpdate(simulation_paused, dt)
    /\ UNCHANGED hostVars

\* compute_density.wgsl: the smoothing kernel, (r^2 - d^2)^3 within the radius
Poly6(dist2, smoothing_radius) ==
    IF dist2 <= smoothing_radius * smoothing_radius
    THEN (smoothing_radius * smoothing_radius - dist2)
            * (smoothing_radius * smoothing_radius - dist2)
            * (smoothing_radius * smoothing_radius - dist2)
    ELSE 0

RECURSIVE SumOver(_, _)
SumOver(S, f) ==
    IF S = {} THEN 0
    ELSE LET x == CHOOSE y \in S : TRUE IN f[x] + SumOver(S \ {x}, f)

\* compute_density.wgsl, the thread of particle i: mass * sum of W over the
\* neighbours the grid scan yields
Density(i) ==
    config.mass *
       SumOver(GridNeighbours(i),
               [j \in DOMAIN position_buffer |->
                   Poly6(Dist2(position_buffer[i], position_buffer[j]),
                         config.smoothing_radius)])

ComputeDensity ==
    /\ running = NoPass /\ queue # <<>> /\ Head(queue).op = "compute_density"
    /\ density_buffer' = [p \in DOMAIN density_buffer |->
                            IF p \in FluidThreads THEN Density(p)
                            ELSE density_buffer[p]]
    /\ queue' = Tail(queue)
    /\ last_pass' = "compute_density"
    /\ UNCHANGED <<radixBufs, running, pending, host_op, test, lookupData,
                   velocity_buffer, force_buffer, particle_display_buffer,
                   render_queue, drawn>>
    /\ UNCHANGED hostVars

\* the forces a force pass can leave for a particle, in units of the
\* self term of the density: none, downwards, and two sideways pushes
ForceSet ==
    LET w == Poly6(0, config.smoothing_radius)
    IN  { <<0, 0, 0>>, <<0, -2 * w, 0>>, <<2 * w, 2 * w, 0>>, <<-3 * w, 0, 0>> }

\* compute_force.wgsl writes the total force of every non-ghost particle; the
\* force is left open here: any force of ForceSet
ComputeForce ==
    /\ running = NoPass /\ queue # <<>> /\ Head(queue).op = "compute_force"
    /\ \E f \in [FluidThreads -> ForceSet] :
          force_buffer' = [p \in DOMAIN force_buffer |->
                             IF p \in FluidThreads THEN f[p] ELSE force_buffer[p]]
    /\ queue' = Tail(queue)
    /\ last_pass' = "compute_force"
    /\ UNCHANGED <<radixBufs, running, pending, host_op, test, lookupData,
                   velocity_buffer, density_buffer, particle_display_buffer,
                   render_queue, drawn>>
    /\ UNCHANGED hostVars

\* update_particles.wgsl: force / density. A division by a zero density has
\* no defined finite result: any of a few finite vectors stands for it.
Accelerations(force, density) ==
    IF density # 0
    THEN { << force[1] \div density, force[2] \div density, force[3] \div density >> }
    ELSE { <<0, 0, 0>>, <<2, -1, 0>>, <<-3, 1, 0>> }

\* update_particles.wgsl, one axis: velocity += acceleration * dt, then
\* position += velocity * dt; a position outside [0, bbox] is set to the
\* bound it passed and the velocity is multiplied by -damping
IntegrateAxis(x, v, acc, dt, bbox) ==
    LET v1 == v + acc * dt
        x1 == x + v1 * dt
        vb == (-(v1 * config.damping.num)) \div config.damping.den
    IN  IF x1 < 0 THEN << 0, vb >>
        ELSE IF x1 > bbox THEN << bbox, vb >>
        ELSE << x1, v1 >>

Integrate(p, acc, dt) ==
    [a \in 1 .. 3 |->
        IntegrateAxis(position_buffer[p][a], velocity_buffer[p][a], acc[a], dt,
                      ShaderBBox(config.bbox_dimensions)[a])]

UpdateParticles ==
    /\ running = NoPass /\ queue # <<>> /\ Head(queue).op = "update_particles"
    /\ \E acc \in [FluidThreads -> UNION {Accelerations(force_buffer[p], density_buffer[p]) :
                                            p \in FluidThreads}] :
          /\ \A p \in FluidThreads :
                acc[p] \in Accelerations(force_buffer[p], density_buffer[p])
          /\ LET dt   == Head(queue).pass_ind
                 next == [p \in FluidThreads |-> Integrate(p, acc[p], dt)]
             IN  /\ position_buffer' =
                       [p \in DOMAIN position_buffer |->
                           IF p \in FluidThreads
                           THEN << next[p][1][1], next[p][2][1], next[p][3][1] >>
                           ELSE position_buffer[p]]
                 /\ velocity_buffer' =
                       [p \in DOMAIN velocity_buffer |->
                           IF p \in FluidThreads
                           THEN << next[p][1][2], next[p][2][2], next[p][3][2] >>
                           ELSE velocity_buffer[p]]
    /\ queue' = Tail(queue)
    /\ last_pass' = "update_particles"
    /\ UNCHANGED <<radixBufs, running, pending, host_op, test, config, sort_keys,
                   sort_values, spatial_lookup_index, density_buffer, force_buffer,
                   particle_display_buffer, render_queue, drawn>>
    /\ UNCHANGED hostVars

\* fill_display_buffer.wgsl: one hue for a density below the rest density,
\* another from the rest density on
DensityColor(density) ==
    IF density < config.rest_density THEN "low" ELSE "high"

\* fill_display_buffer.wgsl, every thread p < PARTICLE_CNT
FillDisplayBuffer ==
    /\ running = NoPass /\ queue # <<>> /\ Head(queue).op = "fill_display_buffer"
    /\ particle_display_buffer' =
          [p \in DOMAIN particle_display_buffer |->
              IF p \in ActiveThreads(DisplayWorkgroupCnt(config.particle_cnt),
                                     config.particle_cnt)
              THEN [position |-> position_buffer[p],
                    color    |-> DensityColor(density_buffer[p])]
              ELSE particle_display_buffer[p]]
    /\ queue' = Tail(queue)
    /\ last_pass' = "fill_display_buffer"
    /\ UNCHANGED <<radixBufs, running, pending, host_op, test, lookupData,
                   velocity_buffer, density_buffer, force_buffer, render_queue,
                   drawn>>
    /\ UNCHANGED hostVars

\* RenderEngine::render: the generic requests of the frame have run; draw the
\* queued render requests and clear the queue
Render ==
    /\ test \in {"simulation", "application_state"}
    /\ GpuIdle /\ render_queue # <<>>
    /\ RenderResult(TRUE)
    /\ UNCHANGED <<radixVars, lookupBufs, simData>>
    /\ UNCHANGED hostVars

\* FluidSimulation::new: one ghost particle on the floor, one fluid particle;
\* densities at rest density, velocities zero, the other buffers zeroed
SimInit ==
    /\ test = "simulation"
    /\ \E damping \in DampingSet : config = [SimConfig EXCEPT !.damping = damping]
    /\ \E start \in SimStarts :
          position_buffer = [p \in 0 .. 1 |-> IF p = 0 THEN <<0, 0, 0>> ELSE start]
    /\ sort_keys = Zeros(config.particle_cnt)
    /\ sort_values = Zeros(config.particle_cnt)
    /\ spatial_lookup_index = Zeros(CellTotal(config.cell_cnt))
    /\ velocity_buffer = [p \in 0 .. config.particle_cnt - 1 |-> <<0, 0, 0>>]
    /\ density_buffer = [p \in 0 .. config.particle_cnt - 1 |-> config.rest_density]
    /\ force_buffer = [p \in 0 .. config.particle_cnt - 1 |-> <<0, 0, 0>>]
    /\ particle_display_buffer =
          [p \in 0 .. config.particle_cnt - 1 |->
              [position |-> <<0, 0, 0>>, color |-> "zero"]]
    /\ render_queue = <<>> /\ drawn = <<>>
    /\ host_op = "none"
    /\ NoRadix /\ GpuInit /\ NoHost

SimNext ==
    \/ \E simulation_paused \in BOOLEAN, dt \in DtSet : Update(simulation_paused, dt)
    \/ FillSpatialLookup
    \/ GpuSort
    \/ Dispatch
    \/ \E i \in pending : IndexThread(i)
    \/ EndPass
    \/ ComputeDensity
    \/ ComputeForce
    \/ UpdateParticles
    \/ FillDisplayBuffer
    \/ Render

SpecSim == SimInit /\ [][SimNext]_vars

----------------------------------------------------------------------------
(* Claims about the simulation *)

FluidParticles ==
    {p \in DOMAIN position_buffer : p >= config.ghost_particle_cnt}

C10_PausedUpdateChangesNothing ==
    [][(host_op' = "update_paused") =>
          /\ queue' = <<>>
          /\ UNCHANGED <<position_buffer, velocity_buffer, density_buffer,
                         force_buffer, sort_keys, sort_values,
                         spatial_lookup_index>>]_vars

\* a paused update has been made after unpaused frames have moved the fluid
\* particle and built the table
C10_Witness ==
    /\ host_op = "update_paused" /\ render_queue = RenderRequests
    /\ queue = <<>>
    /\ \E p \in FluidParticles : velocity_buffer[p] # <<0, 0, 0>>
    /\ \E c \in DOMAIN spatial_lookup_index : spatial_lookup_index[c] # 0

GhostParticles ==
    {p \in DOMAIN position_buffer : p < config.ghost_particle_cnt}

\* the record the display pass writes for particle p from its present state
DisplayRecord(p) ==
    [position |-> position_buffer[p], color |-> DensityColor(density_buffer[p])]

\* C11: in every frame, paused or not and from the first frame on, the
\* renderer is handed the particle display buffer, and when the frame is
\* drawn that buffer holds the (position, color) record of every particle's
\* last-known state.
C11_DisplayBufferValidWhenDrawn ==
    (test = "simulation" /\ GpuIdle /\ render_queue # <<>>) =>
        /\ \E r \in DOMAIN render_queue : render_queue[r] = "Particle"
        /\ \A p \in DOMAIN position_buffer :
              particle_display_buffer[p] = DisplayRecord(p)

\* C12: no pass writes the state of a ghost particle: position, velocity,
\* force and density of every index below ghost_particle_cnt keep their
\* values of construction, the density being the rest density.
C12_GhostsNeverWritten ==
    (test = "simulation") =>
        \A g \in GhostParticles :
           /\ position_buffer[g] = <<0, 0, 0>>
           /\ velocity_buffer[g] = <<0, 0, 0>>
           /\ force_buffer[g] = <<0, 0, 0>>
           /\ density_buffer[g] = config.rest_density

\* a whole unpaused frame has run: the fluid particle has a density, a force
\* and a velocity of its own, next to the ghost particle
C12_Witness ==
    /\ test = "simulation" /\ last_pass = "fill_display_buffer"
    /\ GhostParticles # {}
    /\ \E p \in FluidParticles :
          /\ density_buffer[p] # config.rest_density
          /\ force_buffer[p] # <<0, 0, 0>>
          /\ velocity_buffer[p] # <<0, 0, 0>>

\* C14: after every density pass the density of every non-ghost particle is
\* at least mass * W(0, radius), so strictly positive: the neighbour sum
\* includes the particle itself, and force / density never divides by zero.
C14_DensityIncludesSelf ==
    (test = "simulation" /\ last_pass = "compute_density") =>
        \A p \in FluidParticles :
           /\ density_buffer[p] >= config.mass * Poly6(0, config.smoothing_radius)
           /\ density_buffer[p] > 0

\* the order of the passes of an unpaused frame, as the claim states it
FrameOrder ==
    UpdateOrder \o <<"compute_density", "compute_force", "update_particles",
                     "fill_display_buffer">>

\* C23: an unpaused update appends one of each pass in the order lookup
\* update, density, force, integration, display, and they run in this order:
\* the force pass starts on the densities of the present positions (this
\* frame's density pass), the integration pass starts right after this
\* frame's force pass, the display pass right after this frame's
\* integration pass, and what it writes are the positions that pass left.
C23_FramePassOrder ==
    (test = "simulation" /\ host_op = "update") =>
        /\ Len(SortStream) <= Len(FrameOrder)
        /\ \A j \in DOMAIN SortStream :
              SortStream[j].op = FrameOrder[Len(FrameOrder) - (Len(SortStream) - j)]
        /\ (SortStream # <<>> /\ Head(SortStream).op = "compute_force") =>
              \A p \in FluidParticles : density_buffer[p] = Density(p)
        /\ (SortStream # <<>> /\ Head(SortStream).op = "update_particles") =>
              last_pass = "compute_force"
        /\ (SortStream # <<>> /\ Head(SortStream).op = "fill_display_buffer") =>
              last_pass = "update_particles"
        /\ (SortStream = <<>>) =>
              /\ last_pass = "fill_display_buffer"
              /\ \A p \in DOMAIN position_buffer :
                    particle_display_buffer[p].position = position_buffer[p]

\* an unpaused frame has run to its end and its integration pass has moved
\* the fluid particle at a non-zero velocity
C23_Witness ==
    /\ test = "simulation" /\ host_op = "update" /\ GpuIdle
    /\ last_pass = "fill_display_buffer"
    /\ \E p \in FluidParticles :
          /\ velocity_buffer[p] # <<0, 0, 0>>
          /\ particle_display_buffer[p].position = position_buffer[p]
          /\ density_buffer[p] > 0

\* a step in which the integration pass runs
IntegrationStep ==
    /\ test = "simulation" /\ running = NoPass /\ queue # <<>>
    /\ Head(queue).op = "update_particles" /\ queue' = Tail(queue)

StepOp ==
    IF running # NoPass THEN running.op
    ELSE IF queue # <<>> /\ queue' = Tail(queue) THEN Head(queue).op
    ELSE "host"

\* the simulation buffers a step changes
ChangedBuffers ==
    (IF position_buffer' # position_buffer THEN {"positions"} ELSE {})
      \cup (IF velocity_buffer' # velocity_buffer THEN {"velocities"} ELSE {})
      \cup (IF density_buffer' # density_buffer THEN {"densities"} ELSE {})
      \cup (IF force_buffer' # force_buffer THEN {"forces"} ELSE {})
      \cup (IF sort_keys' # sort_keys THEN {"keys"} ELSE {})
      \cup (IF sort_values' # sort_values THEN {"values"} ELSE {})
      \cup (IF spatial_lookup_index' # spatial_lookup_index THEN {"index"} ELSE {})
      \cup (IF particle_display_buffer' # particle_display_buffer
            THEN {"display"} ELSE {})

\* the buffers each pass writes, as the claim lists them
PassWrites ==
    [fill_spatial_lookup |-> {"keys", "values"},
     spatial_lookup_index |-> {"index"},
     compute_density |-> {"densities"},
     compute_force |-> {"forces"},
     update_particles |-> {"positions", "velocities"},
     fill_display_buffer |-> {"display"},
     host |-> {}]

\* C25: every step of a pass changes only buffers the pass binds read-write,
\* which are: fill keys and values, build-index the cell-start index, density
\* the densities, force the forces, integration positions and velocities,
\* display the display buffer; a step of the host changes none of them.
C25_PassesWriteOnlyTheirBuffers ==
    [][(test = "simulation") =>
          /\ ChangedBuffers \subseteq ReadWriteBindings(StepOp)
          /\ StepOp \in DOMAIN PassWrites =>
                /\ ChangedBuffers \subseteq PassWrites[StepOp]
                /\ ReadWriteBindings(StepOp) = PassWrites[StepOp]]_vars

\* a paused update follows a frame in which every pass has written: the
\* host's step finds moved keys, non-rest densities, forces, velocities and
\* a filled display buffer, and leaves them
C25_Witness ==
    /\ test = "simulation" /\ host_op = "update_paused"
    /\ last_pass = "fill_display_buffer"
    /\ \E p \in FluidParticles :
          /\ force_buffer[p] # <<0, 0, 0>>
          /\ velocity_buffer[p] # <<0, 0, 0>>
          /\ density_buffer[p] # config.rest_density
          /\ particle_display_buffer[p].color # "zero"
    /\ \E c \in DOMAIN spatial_lookup_index : spatial_lookup_index[c] # 0

\* C26: for every particle whose position lies in [0, bbox_dimension] on
\* every axis, the upper faces included, the key the fill pass writes is a
\* cell id below cell_cnt.x * cell_cnt.y * cell_cnt.z, the length of the
\* cell-start index.
C26_CellIdBelowCellTotal ==
    (test = "simulation" /\ last_pass = "fill_spatial_lookup") =>
        \A p \in DOMAIN position_buffer :
           (\A a \in 1 .. 3 :
               /\ 0 <= position_buffer[p][a]
               /\ position_buffer[p][a] <= config.bbox_dimensions[a])
           => /\ sort_keys[p] = CellId(position_buffer[p])
              /\ sort_keys[p] < CellTotal(config.cell_cnt)
              /\ sort_keys[p] \in DOMAIN spatial_lookup_index

\* the first entry of the sorted table whose key is c
FirstOfRun(c) ==
    CHOOSE i \in DOMAIN sort_keys :
       /\ sort_keys[i] = c
       /\ \A j \in DOMAIN sort_keys : sort_keys[j] = c => i <= j

\* C28: when the density pass or the force pass of a frame is about to read
\* the table and the cell-start index, they describe the positions it reads:
\* the values are the particles, each paired with the cell id of its present
\* position, in ascending order of the keys, and the index entry of every
\* particle's cell is the start of that cell's run (so nothing has written
\* positions, keys, values or index since this frame's lookup update).
C28_TableDescribesPositions ==
    (/\ test = "simulation" /\ host_op = "update" /\ SortStream # <<>>
     /\ Head(SortStream).op \in {"compute_density", "compute_force"}) =>
        /\ {sort_values[i] : i \in DOMAIN sort_values} = DOMAIN position_buffer
        /\ \A i \in DOMAIN sort_keys :
              sort_keys[i] = CellId(position_buffer[sort_values[i]])
        /\ \A i, j \in DOMAIN sort_keys : i < j => sort_keys[i] <= sort_keys[j]
        /\ \A p \in DOMAIN position_buffer :
              LET c == CellId(position_buffer[p])
              IN  /\ c \in DOMAIN spatial_lookup_index
                  /\ spatial_lookup_index[c] = FirstOfRun(c)

----------------------------------------------------------------------------
(* FluidSimulation::particle_start_positions *)

\* squeeze_const = 0.55: the spacing smoothing_radius * squeeze_const
Spacing(smoothing_radius) == (smoothing_radius * 11) \div 20

\* the passes of `let mut x = 0.0; while x < side { ...; x += spacing }`
GhostSteps(side, smoothing_radius) == CeilDiv(side, Spacing(smoothing_radius))

\* the ghost particles pushed: num_ghost_layers layers over the x-z floor
GhostCnt(bbox_dimensions, smoothing_radius) ==
    num_ghost_layers * GhostSteps(bbox_dimensions[1], smoothing_radius)
                     * GhostSteps(bbox_dimensions[3], smoothing_radius)

\* the position of ghost g: layers outermost, then x, then z
GhostPosition(g, bbox_dimensions, smoothing_radius) ==
    LET nx == GhostSteps(bbox_dimensions[1], smoothing_radius)
        nz == GhostSteps(bbox_dimensions[3], smoothing_radius)
    IN  << ((g \div nz) % nx) * Spacing(smoothing_radius),
           (g \div (nx * nz)) * Spacing(smoothing_radius),
           (g % nz) * Spacing(smoothing_radius) >>

\* n = ceil(cbrt(fluid_cnt)): the least n with n^3 >= fluid_cnt
RECURSIVE CubeSideFrom(_, _)
CubeSideFrom(fluid_cnt, n) ==
    IF n * n * n >= fluid_cnt THEN n ELSE CubeSideFrom(fluid_cnt, n + 1)

\* the cube root rounded down instead of up
CubeSideRoundedDown(fluid_cnt) ==
    LET n == CubeSideFrom(fluid_cnt, 0)
    IN  IF n * n * n = fluid_cnt THEN n ELSE n - 1

\* let n = f32::ceil(f32::powf(fluid_cnt as f32, 1.0 / 3.0)) as usize
CubeSide(fluid_cnt) == CubeSideFrom(fluid_cnt, 0)

\* the positions the loops over the lattice push: they end after n^3 pushes,
\* or at the first push after which positions.len() >= particle_cnt
PushedFluid(n, fluid_cnt) ==
    IF n = 0 THEN 0
    ELSE IF fluid_cnt <= 1 THEN 1
    ELSE IF n >= fluid_cnt THEN fluid_cnt
    ELSE IF n * n * n < fluid_cnt THEN n * n * n
    ELSE fluid_cnt

\* ceil(cbrt((particle_cnt - ghost_particle_cnt) as f32)) after the usize
\* subtraction has wrapped: the cube root of 2^64, rounded up
WrappedCubeSide == 2642246

\* the f-th position of the fluid lattice of side n, before the jitter:
\* (j, i, k) * spacing - half + bbox / 2, i outermost and k innermost
FluidPosition(f, n, half, bbox_dimensions, smoothing_radius) ==
    << ((f \div n) % n) * Spacing(smoothing_radius) - half + bbox_dimensions[1] \div 2,
       ((f \div n) \div n) * Spacing(smoothing_radius) - half + bbox_dimensions[2] \div 2,
       (f % n) * Spacing(smoothing_radius) - half + bbox_dimensions[3] \div 2 >>

Plus(a, b) == << a[1] + b[1], a[2] + b[2], a[3] + b[3] >>

\* what the call returns for a lattice of side n, fluid_cnt fluid particles
\* and the jitter vectors jitter
StartResult(n, fluid_cnt, jitter) ==
    LET ghost_particle_cnt == GhostCnt(config.bbox_dimensions, config.smoothing_radius)
        half == ((n - 1) * Spacing(config.smoothing_radius)) \div 2
    IN  [ outcome            |-> "returned",
          ghost_particle_cnt |-> ghost_particle_cnt,
          positions          |->
             [p \in 0 .. ghost_particle_cnt + PushedFluid(n, fluid_cnt) - 1 |->
                 IF p < ghost_particle_cnt
                 THEN GhostPosition(p, config.bbox_dimensions, config.smoothing_radius)
                 ELSE Plus(FluidPosition(p - ghost_particle_cnt, n, half,
                                         config.bbox_dimensions,
                                         config.smoothing_radius),
                           jitter[p - ghost_particle_cnt])] ]

Panicked == [outcome |-> "panic", ghost_particle_cnt |-> 0, positions |-> <<>>]

NotCalled == [outcome |-> "none", ghost_particle_cnt |-> 0, positions |-> <<>>]

\* particle_start_positions(particle_cnt, smoothing_radius, bbox_dimensions).
\* `particle_cnt - ghost_particle_cnt` and `n - 1` are usize subtractions: one
\* that would go below zero panics in a build with overflow checks and wraps
\* in a build without.
ParticleStartPositions ==
    /\ test \in {"particle_start_positions", "new"} /\ start_positions = NotCalled
    /\ LET ghost_particle_cnt ==
               GhostCnt(config.bbox_dimensions, config.smoothing_radius)
           particle_cnt == config.particle_cnt
       IN  IF particle_cnt > ghost_particle_cnt
           THEN \E even \in JitterSet, odd \in JitterSet :
                   start_positions' =
                      StartResult(CubeSide(particle_cnt - ghost_particle_cnt),
                                  particle_cnt - ghost_particle_cnt,
                                  [f \in 0 .. particle_cnt - ghost_particle_cnt - 1 |->
                                      IF f % 2 = 0 THEN even ELSE odd])
           ELSE IF particle_cnt = ghost_particle_cnt
           THEN \/ start_positions' = Panicked
                \/ start_positions' = StartResult(0, 0, <<>>)
           ELSE \/ start_positions' = Panicked
                \/ \E jitter \in [0 .. 0 -> JitterSet] :
                      start_positions' = StartResult(WrappedCubeSide, 1, jitter)
    /\ UNCHANGED <<radixVars, lookupBufs, simBufs, tasks, application>>

\* a configuration handed to FluidSimulation::new
StartInit ==
    /\ test = "particle_start_positions"
    /\ \E particle_cnt \in 1 .. MaxStartCnt, x \in StartSides, z \in StartSides :
          config = MakeConfig(particle_cnt, StartRadius, <<x, StartRadius, z>>)
    /\ position_buffer = Zeros(0) /\ sort_keys = Zeros(0) /\ sort_values = Zeros(0)
    /\ spatial_lookup_index = Zeros(0)
    /\ host_op = "none"
    /\ start_positions = NotCalled /\ tasks = <<>> /\ application = "none"
    /\ NoRadix /\ GpuInit /\ NoSim

StartNext == ParticleStartPositions

SpecStart == StartInit /\ [][StartNext]_vars

\* C13: for every configuration particle_start_positions returns, and returns
\* ghost_particle_cnt < particle_cnt: there is at least one non-ghost particle
\* and the subtraction particle_cnt - ghost_particle_cnt never underflows.
C13_GhostsFewerThanParticles ==
    (test = "particle_start_positions" /\ start_positions.outcome # "none") =>
        /\ start_positions.outcome = "returned"
        /\ start_positions.ghost_particle_cnt < config.particle_cnt

\* C27: whenever ghost_particle_cnt < particle_cnt the call returns exactly
\* particle_cnt positions; the first ghost_particle_cnt of them are the two
\* ghost layers, at heights 0 and 0.55 * smoothing_radius on the spacing
\* grid of the floor, the lower layer first; all later ones are fluid
\* particles, one for each of the particle_cnt - ghost_particle_cnt, which
\* the lattice of side n = ceil(cbrt(particle_cnt - ghost_particle_cnt)) has
\* room for.
C27_GhostsPrecedeFluid ==
    (/\ test = "particle_start_positions"
     /\ start_positions.outcome # "none"
     /\ GhostCnt(config.bbox_dimensions, config.smoothing_radius)
           < config.particle_cnt) =>
        LET ghost_particle_cnt == start_positions.ghost_particle_cnt
            positions == start_positions.positions
            spacing == Spacing(config.smoothing_radius)
            n == CubeSide(config.particle_cnt - ghost_particle_cnt)
        IN  /\ start_positions.outcome = "returned"
            /\ DOMAIN positions = 0 .. config.particle_cnt - 1
            /\ ghost_particle_cnt =
                  GhostCnt(config.bbox_dimensions, config.smoothing_radius)
            /\ \A g \in 0 .. ghost_particle_cnt - 1 :
                  /\ positions[g][2] =
                        (IF 2 * g < ghost_particle_cnt THEN 0 ELSE spacing)
                  /\ positions[g][1] % spacing = 0
                  /\ positions[g][3] % spacing = 0
                  /\ 0 <= positions[g][1]
                  /\ positions[g][1] < config.bbox_dimensions[1]
                  /\ 0 <= positions[g][3]
                  /\ positions[g][3] < config.bbox_dimensions[3]
            /\ \A g, h \in 0 .. ghost_particle_cnt - 1 :
                  g # h => positions[g] # positions[h]
            /\ n * n * n >= config.particle_cnt - ghost_particle_cnt
            /\ (n - 1) * (n - 1) * (n - 1) < config.particle_cnt - ghost_particle_cnt

\* the call has returned ghosts and more than one fluid particle, for a
\* fluid count that is not a cube
C27_Witness ==
    /\ test = "particle_start_positions"
    /\ start_positions.outcome = "returned"
    /\ start_positions.ghost_particle_cnt = 2
    /\ config.particle_cnt = 5
    /\ DOMAIN start_positions.positions = 0 .. 4

----------------------------------------------------------------------------
(* Construction of the tasks and their dispatch *)

Task(elements, workgroups) == [elements |-> elements, workgroups |-> workgroups]

\* RadixSort::new(wgpu_device, keys_buffer): key_cnt = keys_buffer.size() / 4,
\* the count, prescan and scatter tasks
RadixSortNew ==
    /\ test = "new" /\ host_op # "panic" /\ "fill_counters" \notin DOMAIN tasks
    /\ LET key_cnt == BufLen(keys_buffer)
       IN  tasks' = tasks @@
              ( "fill_counters" :> Task(key_cnt, FillCountersWorkgroupCnt(key_cnt)) @@
                "prescan"       :> Task(bin_cnt, PrescanWorkgroupCnt) @@
                "reorder"       :> Task(key_cnt, ReorderWorkgroupCnt(key_cnt)) )
    /\ keys_output_buffer' = Zeros(BufLen(keys_buffer))
    /\ UNCHANGED <<keys_buffer, vals_buffer, counter_buffer, queue, running, pending,
                   host_keys, host_vals, host_data, host_op, test, lookupBufs,
                   simBufs, start_positions, application>>

\* the fill and build-index tasks of SpatialLookup::new
LookupTasks(particle_cnt) ==
    "fill_spatial_lookup"  :> Task(particle_cnt, FillWorkgroupCnt(particle_cnt)) @@
    "spatial_lookup_index" :> Task(particle_cnt, IndexWorkgroupCnt(particle_cnt))

\* SpatialLookup::new(wgpu_device, particle_cnt, smoothing_radius, cell_cnt,
\* position_buffer): NonZeroU32::new(particle_cnt as u32).unwrap() panics for
\* particle_cnt = 0, before any task is built
SpatialLookupNew ==
    /\ test = "new" /\ host_op # "panic"
    /\ "fill_spatial_lookup" \notin DOMAIN tasks
    /\ IF config.particle_cnt = 0
       THEN /\ host_op' = "panic"
            /\ UNCHANGED <<tasks, sort_keys, sort_values, spatial_lookup_index>>
       ELSE /\ tasks' = tasks @@ LookupTasks(config.particle_cnt)
            /\ sort_keys' = Zeros(config.particle_cnt)
            /\ sort_values' = Zeros(config.particle_cnt)
            /\ spatial_lookup_index' = Zeros(CellTotal(config.cell_cnt))
            /\ UNCHANGED host_op
    /\ UNCHANGED <<radixBufs, queue, running, pending, test, config, position_buffer,
                   last_pass, simBufs, start_positions, application>>

\* the density, display, integration and force tasks of FluidSimulation::new
FluidTasks(particle_cnt, ghost_particle_cnt) ==
    LET w == FluidWorkgroupCnt(particle_cnt, ghost_particle_cnt)
    IN  "compute_density"     :> Task(particle_cnt - ghost_particle_cnt, w) @@
        "fill_display_buffer" :> Task(particle_cnt, DisplayWorkgroupCnt(particle_cnt)) @@
        "update_particles"    :> Task(particle_cnt - ghost_particle_cnt, w) @@
        "compute_force"       :> Task(particle_cnt - ghost_particle_cnt, w)

\* FluidSimulation::new after particle_start_positions has returned: the
\* buffers, SpatialLookup::new, then the four tasks
FluidSimulationNew ==
    /\ test = "new" /\ host_op # "panic"
    /\ start_positions.outcome = "returned"
    /\ "compute_density" \notin DOMAIN tasks
    /\ "fill_spatial_lookup" \notin DOMAIN tasks
    /\ position_buffer' = start_positions.positions
    /\ IF config.particle_cnt = 0
       THEN /\ host_op' = "panic"
            /\ UNCHANGED <<tasks, sort_keys, sort_values, spatial_lookup_index>>
       ELSE /\ tasks' = tasks @@ LookupTasks(config.particle_cnt)
                              @@ FluidTasks(config.particle_cnt,
                                            start_positions.ghost_particle_cnt)
            /\ sort_keys' = Zeros(config.particle_cnt)
            /\ sort_values' = Zeros(config.particle_cnt)
            /\ spatial_lookup_index' = Zeros(CellTotal(config.cell_cnt))
            /\ UNCHANGED host_op
    /\ UNCHANGED <<radixBufs, queue, running, pending, test, config, last_pass,
                   simBufs, start_positions, application>>

\* ComputeTask::execute(encoder, push_constants): begins a compute pass and
\* encodes dispatch_workgroups(self.workgroups) as the task was given them
Execute(kernel) ==
    /\ test = "new" /\ host_op # "panic"
    /\ kernel \in DOMAIN tasks
    /\ Len(queue) < MaxDispatch
    /\ queue' = Append(queue, [op |-> kernel, pass_ind |-> 0,
                               workgroups |-> tasks[kernel].workgroups])
    /\ UNCHANGED <<radixBufs, running, pending, host_op, test, lookupBufs, simBufs,
                   start_positions, tasks, application>>

Kernels ==
    { "fill_counters", "prescan", "reorder", "fill_spatial_lookup",
      "spatial_lookup_index", "compute_density", "compute_force",
      "update_particles", "fill_display_buffer" }

\* a key buffer of key_cnt keys and a configuration of as many particles
NewInit ==
    /\ test = "new"
    /\ \E particle_cnt \in NewCounts, x \in NewSides, z \in NewSides :
          /\ config = MakeConfig(particle_cnt, StartRadius, <<x, StartRadius, z>>)
          /\ keys_buffer = Zeros(particle_cnt)
    /\ vals_buffer = Zeros(0) /\ counter_buffer = Zeros(bin_cnt)
    /\ keys_output_buffer = Zeros(0)
    /\ host_keys = Zeros(0) /\ host_vals = Zeros(0) /\ host_data = Zeros(0)
    /\ position_buffer = Zeros(0) /\ sort_keys = Zeros(0) /\ sort_values = Zeros(0)
    /\ spatial_lookup_index = Zeros(0)
    /\ host_op = "none"
    /\ start_positions = NotCalled /\ tasks = <<>> /\ application = "none"
    /\ GpuInit /\ NoSim

NewNext ==
    \/ ParticleStartPositions
    \/ RadixSortNew
    \/ SpatialLookupNew
    \/ FluidSimulationNew
    \/ \E kernel \in Kernels : Execute(kernel)

SpecNew == NewInit /\ [][NewNext]_vars

\* C15: every task that runs one thread per element over n elements is given
\* w = ceil(n / 256) workgroups: w * 256 >= n and (w - 1) * 256 < n.
C15_WorkgroupsRoundUp ==
    (test = "new") =>
        \A kernel \in DOMAIN tasks \ {"prescan"} :
           LET n == tasks[kernel].elements
               w == tasks[kernel].workgroups
           IN  n >= 0 => (w * WORKGROUP_SIZE >= n /\ (w - 1) * WORKGROUP_SIZE < n)

\* all tasks are constructed, over counts that are not multiples of 256: two
\* workgroups for 257 particles, one for the 255 particles that are not ghosts
C15_Witness ==
    /\ test = "new" /\ DOMAIN tasks = Kernels
    /\ tasks["fill_display_buffer"] = Task(257, 2)
    /\ tasks["fill_counters"] = Task(257, 2)
    /\ tasks["compute_density"] = Task(255, 1)

\* C16: a task whose workgroup count is zero on some axis is never
\* dispatched: no dispatch encoded for submission has a zero count, however
\* the task was constructed.
C16_NoZeroWorkgroupDispatch ==
    (test = "new") =>
        \A i \in DOMAIN queue : queue[i].workgroups >= 1

\* C17: for zero elements, constructing the sort and the spatial lookup and
\* running them completes without failure: nothing panics, and no dispatch
\* that could write a buffer is encoded.
C17_EmptyInputIsNoOp ==
    (test = "new" /\ config.particle_cnt = 0) =>
        /\ host_op # "panic"
        /\ BufLen(sort_keys) = 0 /\ BufLen(keys_output_buffer) = 0

\* ---------------------------------------------------------------------------
\* The application: application.rs, input_helper.rs, the camera and the size
\* held by the render engine (graphics/render_engine.rs, graphics/camera.rs)
\* ---------------------------------------------------------------------------

\* largest accumulated mouse delta between two redraws
MaxDelta == 1

\* largest orbit radius of the camera, in zoom steps
MaxCameraRadius == 3

\* number of yaw (and pitch) positions of the camera
AngleSteps == 3

DeltaSet == -MaxDelta .. MaxDelta

\* sizes reported by Resized; a size with a zero side is ignored by resize
SizeSet == {<<0, 1>>, <<1, 1>>, <<2, 1>>}

\* Camera::new: radius 1.0, rotation identity (z_near is one zoom step)
CameraNew == [radius |-> 2, z_near |-> 1, yaw |-> 0, pitch |-> 0]

Max(a, b) == IF a >= b THEN a ELSE b

\* Camera::update
CameraUpdate(camera, left_button_pressed, mouse_move_delta, mouse_wheel_delta) ==
    [camera EXCEPT
        !.radius = Max(camera.radius + mouse_wheel_delta, camera.z_near),
        !.yaw = IF left_button_pressed
                THEN (camera.yaw - mouse_move_delta[1]) % AngleSteps ELSE @,
        !.pitch = IF left_button_pressed
                  THEN (camera.pitch + mouse_move_delta[2]) % AngleSteps ELSE @]

\* Option<RenderEngine>: None, and Some(engine) as RenderEngine::new returns it
NoRenderEngine == [some |-> FALSE, size |-> <<0, 0>>, camera |-> CameraNew]

RenderEngineNew == [some |-> TRUE, size |-> <<1, 1>>, camera |-> CameraNew]

\* RenderEngine::resize
Resize(render_engine, new_size) ==
    IF new_size[1] > 0 /\ new_size[2] > 0
    THEN [render_engine EXCEPT !.size = new_size]
    ELSE render_engine

\* InputHelper::new: empty maps, zero deltas. A map is modelled on the one
\* entry the application reads (MouseButton::Right); "absent" reads as false.
InputHelperNew ==
    [mouse_button_map |-> "absent", keyboard_button_map |-> "absent",
     mouse_dx |-> 0, mouse_dy |-> 0, mouse_dw |-> 0]

\* InputHelper::is_mouse_button_pressed
IsPressed(entry) == entry = "pressed"

\* InputHelper::reset
InputHelperReset(input_helper) ==
    [input_helper EXCEPT !.mouse_dx = 0, !.mouse_dy = 0, !.mouse_dw = 0]

\* Application::new
ApplicationNew ==
    [window |-> FALSE, render_engine |-> NoRenderEngine,
     input_helper |-> InputHelperNew, status |-> "running"]

AppRunning == test = "application" /\ application.status = "running"

AppOnly == UNCHANGED <<radixVars, lookupBufs, simBufs, start_positions, tasks>>

\* Application::resumed: an Err of RenderEngine::new is dropped without
\* being propagated, and the window is stored either way
Resumed(window_ok, engine_ok) ==
    /\ AppRunning
    /\ application' =
          IF window_ok
          THEN [application EXCEPT
                   !.render_engine = IF engine_ok THEN RenderEngineNew
                                     ELSE NoRenderEngine,
                   !.window = TRUE]
          ELSE application
    /\ AppOnly

\* the camera after the update_camera call of a RedrawRequested event
RedrawCamera ==
    LET ih == application.input_helper
    IN  CameraUpdate(application.render_engine.camera,
                     IsPressed(ih.mouse_button_map),
                     <<ih.mouse_dx, ih.mouse_dy>>, ih.mouse_dw)

\* Application::window_event for an event of the application's own window
\* (an event of another window changes nothing):
\* `self.render_engine.as_mut().unwrap()` comes before the match on the
\* event; render() returns Err when the surface has no texture to give, and
\* the expect on it panics
WindowEvent(event, arg, render_ok) ==
    /\ AppRunning /\ application.window
    /\ (event = "RedrawRequested" /\ application.render_engine.some) =>
           RedrawCamera.radius <= MaxCameraRadius
    /\ application' =
          IF ~application.render_engine.some
          THEN [application EXCEPT !.status = "panic"]
          ELSE CASE event = "CloseRequested" ->
                      [application EXCEPT !.status = "exit"]
                 [] event = "Resized" ->
                      [application EXCEPT
                          !.render_engine = Resize(@, arg.size)]
                 [] event = "KeyboardInput" ->
                      [application EXCEPT
                          !.input_helper.keyboard_button_map = arg.state]
                 [] event = "MouseInput" ->
                      [application EXCEPT
                          !.input_helper.mouse_button_map = arg.state]
                 [] event = "RedrawRequested" ->
                      IF render_ok
                      THEN [application EXCEPT
                               !.render_engine.camera = RedrawCamera,
                               !.input_helper = InputHelperReset(@)]
                      ELSE [application EXCEPT
                               !.render_engine.camera = RedrawCamera,
                               !.status = "panic"]
                 [] OTHER -> application
    /\ AppOnly

EventArgs == [size : SizeSet, state : {"pressed", "released"}]

WindowEvents ==
    {"CloseRequested", "Resized", "KeyboardInput", "MouseInput",
     "RedrawRequested", "Focused"}

\* Application::device_event
DeviceEvent(event, delta) ==
    /\ AppRunning
    /\ LET ih == application.input_helper
       IN  CASE event = "MouseMotion" ->
                   /\ ih.mouse_dx + delta[1] \in DeltaSet
                   /\ ih.mouse_dy + delta[2] \in DeltaSet
                   /\ application' =
                         [application EXCEPT
                             !.input_helper.mouse_dx = @ + delta[1],
                             !.input_helper.mouse_dy = @ + delta[2]]
             [] event = "MouseWheel" ->
                   /\ ih.mouse_dw + delta[2] \in DeltaSet
                   /\ application' =
                         [application EXCEPT
                             !.input_helper.mouse_dw = @ + delta[2]]
    /\ AppOnly

AppInit ==
    /\ test = "application"
    /\ application = ApplicationNew
    /\ start_positions = "none" /\ tasks = <<>>
    /\ host_op = "none"
    /\ NoRadix /\ NoLookup /\ GpuInit /\ NoSim

AppNext ==
    \/ \E window_ok \in BOOLEAN, engine_ok \in BOOLEAN : Resumed(window_ok, engine_ok)
    \/ \E event \in WindowEvents, arg \in EventArgs, render_ok \in BOOLEAN :
          WindowEvent(event, arg, render_ok)
    \/ \E event \in {"MouseMotion", "MouseWheel"}, delta \in DeltaSet \X DeltaSet :
          DeviceEvent(event, delta)

SpecApp == AppInit /\ [][AppNext]_vars

\* C18: a failure of the render engine's construction leaves no partial
\* state behind: the application never holds a window without a render
\* engine, and no window event is handled on a missing engine (no panic of
\* the unwrap in window_event).
C18_NoWindowWithoutEngine ==
    (test = "application") =>
        /\ application.window => application.render_engine.some
        /\ ~(application.status = "panic" /\ ~application.render_engine.some)

\* ---------------------------------------------------------------------------
\* The render queue: RenderEngine::submit_render_request and
\* RenderEngine::render (graphics/render_engine.rs)
\* ---------------------------------------------------------------------------

\* enum MaterialType
MaterialTypes == {"Line", "Particle"}

\* RenderEngine::submit_render_request: self.render_queue.push(render_request)
SubmitRenderRequest(material_type) ==
    /\ test = "render" /\ Len(render_queue) < MaxRenderQueue
    /\ render_queue' = Append(render_queue, material_type)
    /\ host_op' = "submit_render_request"
    /\ UNCHANGED <<radixBufs, queue, running, pending, test, lookupBufs, simData,
                   drawn, hostVars>>

\* RenderEngine::render, with or without a surface texture to draw to
RenderCall(surface_ok) ==
    /\ test = "render"
    /\ RenderResult(surface_ok)
    /\ host_op' = IF surface_ok THEN "render_ok" ELSE "render_err"
    /\ UNCHANGED <<radixBufs, queue, running, pending, test, lookupBufs, simData,
                   hostVars>>

\* RenderEngine::new: render_queue: Vec::new()
RenderInit ==
    /\ test = "render"
    /\ host_op = "none"
    /\ NoRadix /\ NoLookup /\ GpuInit /\ NoSim /\ NoHost

RenderNext ==
    \/ \E material_type \in MaterialTypes : SubmitRenderRequest(material_type)
    \/ \E surface_ok \in BOOLEAN : RenderCall(surface_ok)

SpecRender == RenderInit /\ [][RenderNext]_vars

\* C29: a call of render that returns Ok has drawn the queued requests in
\* the order they were submitted, each once, and leaves the queue empty; a
\* call that fails to acquire the surface texture has drawn nothing and
\* leaves the queue as it was; and a submission puts its request behind
\* the requests already queued.
C29_RenderDrawsQueueInOrder ==
    [][(test = "render") =>
          /\ (host_op' = "render_ok") =>
                /\ Len(drawn') = Len(render_queue)
                /\ \A r \in DOMAIN render_queue : drawn'[r] = render_queue[r]
                /\ render_queue' = <<>>
          /\ (host_op' = "render_err") =>
                /\ drawn' = <<>>
                /\ render_queue' = render_queue
          /\ (host_op' = "submit_render_request") =>
                /\ Len(render_queue') = Len(render_queue) + 1
                /\ SubSeq(render_queue', 1, Len(render_queue)) = render_queue]_vars

\* a call of render has drawn three requests of which the last, a line, was
\* submitted behind two particle requests
C29_Witness ==
    /\ test = "render" /\ host_op = "render_ok"
    /\ render_queue = <<>>
    /\ drawn = <<"Particle", "Particle", "Line">>

\* ---------------------------------------------------------------------------
\* ApplicationState: the paused flag (application_state.rs), the Space key
\* (input_helper.rs) and the camera controller (camera_controller.rs)
\* ---------------------------------------------------------------------------

\* the time steps between two updates of the application state
StateDts == {1}

\* CameraController::new, in steps of the orbit and zoom sensitivities
CameraControllerNew == [radius |-> 2, phi |-> 0, theta |-> 1]

\* CameraController::update_camera: zoom by the wheel delta, not below
\* z_near; orbit by the mouse delta while the left button is pressed, theta
\* kept inside its two bounds
CameraControllerUpdate(camera_controller, input_helper) ==
    LET pressed == IsPressed(input_helper.mouse_button_map)
        theta   == camera_controller.theta - input_helper.mouse_dy
    IN  [radius |-> Max(camera_controller.radius + input_helper.mouse_dw,
                        CameraNew.z_near),
         phi    |-> IF pressed
                    THEN camera_controller.phi + input_helper.mouse_dx
                    ELSE camera_controller.phi,
         theta  |-> IF pressed
                    THEN Max(0, IF theta > AngleSteps THEN AngleSteps ELSE theta)
                    ELSE camera_controller.theta]

PausedAfterUpdateIgnoringKey(simulation_paused, input_helper) == simulation_paused

\* ApplicationState::update: the flag is inverted when
\* input_helper.is_key_pressed(Space)
PausedAfterUpdate(simulation_paused, input_helper) ==
    IF IsPressed(input_helper.keyboard_button_map)
    THEN ~simulation_paused
    ELSE simulation_paused

\* ApplicationState::new: simulation_paused: true; the input helper is the
\* one the caller hands to update
ApplicationStateNew ==
    [simulation_paused |-> TRUE, input_helper |-> InputHelperNew,
     camera_controller |-> CameraControllerNew]

StateOnly ==
    UNCHANGED <<radixVars, lookupBufs, simBufs, start_positions, tasks>>

\* InputHelper::key_event for the Space key, pressed or released
KeyEvent(state) ==
    /\ test = "application_state"
    /\ application' = [application EXCEPT !.input_helper.keyboard_button_map = state]
    /\ StateOnly

\* InputHelper::reset: the mouse deltas are zeroed, the key maps are kept
InputReset ==
    /\ test = "application_state"
    /\ application' = [application EXCEPT !.input_helper = InputHelperReset(@)]
    /\ StateOnly

\* InputHelper::mouse_wheel_moved
MouseWheelMoved(delta) ==
    /\ test = "application_state"
    /\ application.input_helper.mouse_dw + delta \in DeltaSet
    /\ application' = [application EXCEPT !.input_helper.mouse_dw = @ + delta]
    /\ StateOnly

\* ApplicationState::update(input_helper)
StateUpdate(dt) ==
    /\ test = "application_state"
    /\ CameraControllerUpdate(application.camera_controller,
                              application.input_helper).radius <= MaxCameraRadius
    /\ LET simulation_paused ==
               PausedAfterUpdate(application.simulation_paused,
                                 application.input_helper)
       IN  /\ application' =
                 [application EXCEPT
                     !.camera_controller =
                        CameraControllerUpdate(@, application.input_helper),
                     !.simulation_paused = simulation_paused]
           /\ FluidSimulationUpdate(simulation_paused, dt)
    /\ UNCHANGED <<start_positions, tasks>>

\* ApplicationState::new: the simulation it builds has damping -0.6
StateInit ==
    /\ test = "application_state"
    /\ application = ApplicationStateNew
    /\ config = [SimConfig EXCEPT !.damping = [num |-> -3, den |-> 5]]
    /\ position_buffer = [p \in 0 .. 1 |-> IF p = 0 THEN <<0, 0, 0>> ELSE <<1, 1, 1>>]
    /\ sort_keys = Zeros(config.particle_cnt)
    /\ sort_values = Zeros(config.particle_cnt)
    /\ spatial_lookup_index = Zeros(CellTotal(config.cell_cnt))
    /\ velocity_buffer = [p \in 0 .. config.particle_cnt - 1 |-> <<0, 0, 0>>]
    /\ density_buffer = [p \in 0 .. config.particle_cnt - 1 |-> config.rest_density]
    /\ force_buffer = [p \in 0 .. config.particle_cnt - 1 |-> <<0, 0, 0>>]
    /\ particle_display_buffer =
          [p \in 0 .. config.particle_cnt - 1 |->
              [position |-> <<0, 0, 0>>, color |-> "zero"]]
    /\ render_queue = <<>> /\ drawn = <<>>
    /\ host_op = "none"
    /\ start_positions = "none" /\ tasks = <<>>
    /\ NoRadix /\ GpuInit

StateNext ==
    \/ \E state \in {"pressed", "released"} : KeyEvent(state)
    \/ InputReset
    \/ \E delta \in {-1, 1} : MouseWheelMoved(delta)
    \/ \E dt \in StateDts : StateUpdate(dt)
    \/ FillSpatialLookup
    \/ GpuSort
    \/ Dispatch
    \/ \E i \in pending : IndexThread(i)
    \/ EndPass
    \/ ComputeDensity
    \/ ComputeForce
    \/ UpdateParticles
    \/ FillDisplayBuffer
    \/ Render

SpecState == StateInit /\ [][StateNext]_vars

\* a step of ApplicationState::update: the frame's render requests appear
StateUpdateStep == render_queue = <<>> /\ render_queue' # <<>>

\* C30: the simulation starts paused; the flag changes only in a call of
\* ApplicationState::update, where it is inverted if the Space key is
\* reported pressed (in every such call, however long the key has been
\* held) and kept otherwise; and FluidSimulation::update is handed the flag
\* as it is after the inversion.
C30_PausedFlagToggledBySpace ==
    /\ (test = "application_state") => application.simulation_paused
    /\ [][(test = "application_state") =>
            IF StateUpdateStep
            THEN /\ application'.simulation_paused =
                       (IF application.input_helper.keyboard_button_map = "pressed"
                        THEN ~application.simulation_paused
                        ELSE application.simulation_paused)
                 /\ host_op' = (IF application'.simulation_paused
                                THEN "update_paused" ELSE "update")
                 /\ (queue' = <<>>) <=> application'.simulation_paused
            ELSE application'.simulation_paused = application.simulation_paused]_vars

\* the key has stayed pressed over two updates: the first started the
\* simulation, whose frame has run, and the second has paused it again
C30_Witness ==
    /\ test = "application_state"
    /\ application.simulation_paused /\ host_op = "update_paused"
    /\ application.input_helper.keyboard_button_map = "pressed"
    /\ last_pass = "fill_display_buffer"
    /\ \E p \in FluidParticles : particle_display_buffer[p].color # "zero"

====
